---- MODULE Spec2Model ----
(***************************************************************************)
(* Verification model of the MSSQL procedure mapper.                       *)
(*                                                                         *)
(*   SpecMapping : main.process_mapping driven against OracleMapper and    *)
(*                 followed by the report writer (main.run, steps 4-5).    *)
(*   SpecSplit   : SQLParser._split_branches on character texts.           *)
(*   SpecParse   : GeminiAnalyzer.analyze, phase 0: SQLParser.parse and    *)
(*                 SQLParser.to_structured_text on token texts.            *)
(*                                                                         *)
(* Strings of the program are TLA+ strings.  The Korean markers of the     *)
(* source are written in ASCII: "[매핑없음] " is UnmappedMarker and         *)
(* "[인라인뷰] " is InlineViewMarker.                                       *)
(***************************************************************************)
EXTENDS Integers, Sequences, FiniteSets, TLC

(***************************************************************************)
(* Bounds of the model.                                                    *)
(***************************************************************************)
MaxTables == 1      \* length of analysis.tables
MaxRefs   == 2      \* len(analysis.input_columns) + len(analysis.output_columns)

(***************************************************************************)
(* Generic helpers.                                                        *)
(***************************************************************************)
SeqsUpTo(S, n) == UNION { [1..k -> S] : k \in 0..n }

Range(s) == { s[i] : i \in 1..Len(s) }

\* every ordering of a finite set (Python iterates a set in arbitrary order)
Orderings(S) ==
    { s \in [1..Cardinality(S) -> S] : \A x \in S : \E i \in 1..Cardinality(S) : s[i] = x }

(***************************************************************************)
(* Names used by the analyses that are fed to process_mapping.             *)
(***************************************************************************)
TableNames  == {"T"}
AliasNames  == {"", "A"}
RefTables   == {"T", "t", "A"}
InColumns   == {"c", "x"}
OutColumns  == {"c", "*"}
HintedTables == {"T", "A"}     \* references that may carry is_derived = true

\* str.upper() on the names of the model
Upper(s) ==
    CASE s = "t" -> "T"
      [] s = "c" -> "C"
      [] s = "d" -> "D"
      [] s = "x" -> "X"
      [] s = "a" -> "A"
      [] OTHER   -> s

UnmappedMarker   == "[unmapped] "
InlineViewMarker == "[inline-view] "

(***************************************************************************)
(* gemini_analyzer.TableUsage / ColumnRef / AnalysisResult                   *)
(***************************************************************************)
TableUsage == [name : TableNames, alias : AliasNames, is_derived : BOOLEAN]
ColumnMapping(columns) ==
    { r \in [table : RefTables, column : columns, is_derived : BOOLEAN] :
        r.is_derived => r.table \in HintedTables }
InputColumnMapping  == ColumnMapping(InColumns)
OutputColumnMapping == ColumnMapping(OutColumns)

\* an AnalysisResult of the model: at most MaxTables tables and MaxRefs
\* column references in all
AnalysisResult ==
    UNION { [tables         : SeqsUpTo(TableUsage, MaxTables),
             input_columns  : [1..k -> InputColumnMapping],
             output_columns : SeqsUpTo(OutputColumnMapping, MaxRefs - k)] : k \in 0..MaxRefs }

(***************************************************************************)
(* oracle_mapper.ColumnInfo / TableInfo and the synthesized records.       *)
(***************************************************************************)
ColumnInfo(tk, te, ck, ce, dt, ln, pk, fk, m) ==
    [table_kor |-> tk, table_eng |-> te, col_kor |-> ck, col_eng |-> ce,
     data_type |-> dt, length |-> ln, pk |-> pk, fk |-> fk, is_mapped |-> m]

TableInfo(tk, te, m) == [table_kor |-> tk, table_eng |-> te, is_mapped |-> m]

create_unmapped_table_info(old_table_name) ==
    TableInfo(UnmappedMarker \o old_table_name, old_table_name, FALSE)

create_unmapped_column_info(old_table_name, old_column_name) ==
    ColumnInfo(UnmappedMarker \o old_table_name, old_table_name,
               UnmappedMarker \o old_column_name, old_column_name,
               "", "", "", "", FALSE)

create_derived_table_info(alias) ==
    TableInfo(InlineViewMarker \o alias, InlineViewMarker \o alias, FALSE)

create_derived_column_info(alias, column_name) ==
    ColumnInfo(InlineViewMarker \o alias, InlineViewMarker \o alias,
               column_name, column_name, "", "", "", "", FALSE)

(***************************************************************************)
(* The external schema-mapping store: the rows of the mapping table that   *)
(* OracleMapper queries.  Legacy table T is mapped to NT with two columns; *)
(* every other legacy name has no row.                                     *)
(***************************************************************************)
MappingRows ==
    { [old_table |-> "T", old_column |-> "C",
       info |-> ColumnInfo("nt-kor", "NT", "nc-kor", "NC", "VARCHAR", "20", "Y", "", TRUE)],
      [old_table |-> "T", old_column |-> "D",
       info |-> ColumnInfo("nt-kor", "NT", "nd-kor", "ND", "NUMBER", "5", "", "", TRUE)] }

\* what one run of the SQLcl subprocess can end in
QueryOutcomes == {"ok", "nonzero_exit", "timeout", "unreachable"}

\* OracleMapper._execute_query: the rows on success, the empty list on a
\* non-zero return code, on TimeoutExpired and on any other exception
_execute_query(outcome, rows) == IF outcome = "ok" THEN rows ELSE {}

\* dict.get(key): the cached record, or None (modelled by the caller's default)
CacheGet(cache, key, default) == IF key \in DOMAIN cache THEN cache[key] ELSE default

\* OracleMapper.get_columns_batch: one query for all requested pairs, matched
\* with UPPER() on both sides, cached under (table.upper(), column.upper())
get_columns_batch(requests, outcome) ==
    LET rows == _execute_query(outcome,
                  { r \in MappingRows : \E q \in requests :
                        /\ Upper(q[1]) = Upper(r.old_table)
                        /\ Upper(q[2]) = Upper(r.old_column) })
        keys == { <<Upper(r.old_table), Upper(r.old_column)>> : r \in rows }
    IN  [k \in keys |->
            (CHOOSE r \in rows : <<Upper(r.old_table), Upper(r.old_column)>> = k).info]

\* OracleMapper.get_tables_batch: one query for all requested tables
get_tables_batch(requests, outcome) ==
    LET rows == _execute_query(outcome,
                  { r \in MappingRows : \E q \in requests :
                        Upper(q) = Upper(r.old_table) })
        keys == { Upper(r.old_table) : r \in rows }
    IN  [k \in keys |->
            LET r == CHOOSE r \in rows : Upper(r.old_table) = k
            IN  TableInfo(r.info.table_kor, r.info.table_eng, TRUE)]

\* OracleMapper.get_all_columns_for_table: one query for every mapped column
\* of one table; the result is the set of records (the caller sees a list)
get_all_columns_for_table(table, outcome) ==
    { r.info : r \in _execute_query(outcome,
                  { r \in MappingRows : Upper(r.old_table) = Upper(table) }) }

(***************************************************************************)
(* SQLParser._split_branches (sql_parser.py:114-142) on character texts.   *)
(*                                                                         *)
(* A text is a sequence of one-character strings.  The texts of the model  *)
(* are made of chunks, each followed by one blank; the chunk list is kept  *)
(* beside the text as the document structure the properties refer to.      *)
(***************************************************************************)
MaxChunks == 3      \* number of chunks of a procedure text

\* concatenate the characters of a text into a string
RECURSIVE Join(_)
Join(cs) == IF cs = << >> THEN "" ELSE Head(cs) \o Join(Tail(cs))

\* a guard as written: its text, its parameter and its value, and how the
\* value divides into its leading run of word characters and the rest of the
\* guard's text after that run (and after a closing quote right behind it)
GuardChunk(text, param, value, word, rest) ==
    [kind |-> "guard", text |-> text, param |-> param, value |-> value,
     word |-> word, rest |-> rest]
PlainChunk(kind, text) ==
    [kind |-> kind, text |-> text, param |-> "", value |-> "", word |-> "", rest |-> << >>]

Chunks ==
    { GuardChunk(<<"I", "F", " ", "@", "G", " ", "=", " ", "'", "1", "'">>, "@G", "1", "1", << >>),
      GuardChunk(<<"E", "L", "S", "E", " ", "I", "F", " ", "@", "G", " ", "=", " ", "'", "2", "'">>, "@G", "2", "2", << >>),
      GuardChunk(<<"i", "f", " ", "@", "g", "=", "3">>, "@g", "3", "3", << >>),
      GuardChunk(<<"I", "F", " ", "@", "G", " ", "=", " ", "'", "A", "-", "1", "'">>, "@G", "A-1", "A", <<"-", "1", "'">>),
      GuardChunk(<<"I", "F", " ", "@", "G", " ", "=", " ", "'", "1">>, "@G", "1", "1", << >>),
      PlainChunk("malformed", <<"I", "F", " ", "@", "G", " ", "=", " ", "'", "'">>),
      PlainChunk("stmt", <<"A">>),
      PlainChunk("stmt", <<"I", "F", " ", "E", "X", "I", "S", "T", "S">>),
      PlainChunk("begin", <<"B", "E", "G", "I", "N">>),
      PlainChunk("end", <<"E", "N", "D">>) }

\* the text of a chunk list: every chunk followed by a blank
RECURSIVE Flatten(_)
Flatten(cl) == IF cl = << >> THEN << >> ELSE Head(cl).text \o <<" ">> \o Flatten(Tail(cl))

\* character classes of the pattern: \s and \w
SpaceChars == {" ", "\n", "\t"}
WordChars ==     \* the \w characters the texts of the model use
    {"A", "B", "C", "D", "E", "F", "G", "I", "L", "N", "S", "T", "X",
     "e", "f", "g", "i", "l", "s", "0", "1", "2", "3", "_"}

\* re.IGNORECASE on the letters of the keywords
UpperChar(c) ==
    CASE c = "e" -> "E" [] c = "f" -> "F" [] c = "g" -> "G" [] c = "i" -> "I"
      [] c = "l" -> "L" [] c = "s" -> "S" [] OTHER -> c

\* the character at position i, "" past either end
At(s, i) == IF i \in 1..Len(s) THEN s[i] ELSE ""

\* the literal lit at position p, ignoring case
LitAt(s, p, lit) == \A k \in 1..Len(lit) : UpperChar(At(s, p + k - 1)) = lit[k]

\* the first position at or after p whose character is not in class
RECURSIVE SkipClass(_, _, _)
SkipClass(s, p, class) ==
    IF At(s, p) \in class THEN SkipClass(s, p + 1, class) ELSE p

NoMatch == [ok |-> FALSE, end |-> 0, param |-> << >>, value |-> << >>]

\* GuardFrom with the closing quote left in the text that follows
GuardFrom_KeepsClosingQuote(s, q) ==
    LET a == q + 2
        b == SkipClass(s, a, SpaceChars)
        c == SkipClass(s, b + 1, WordChars)
        d == SkipClass(s, c, SpaceChars)
        e == SkipClass(s, d + 1, SpaceChars)
        f == IF At(s, e) = "'" THEN e + 1 ELSE e
        g == SkipClass(s, f, WordChars)
    IN  IF /\ LitAt(s, q, <<"I", "F">>)
           /\ b > a
           /\ At(s, b) = "@"
           /\ c > b + 1
           /\ At(s, d) = "="
           /\ g > f
        THEN [ok |-> TRUE, end |-> g, param |-> SubSeq(s, b, c - 1),
              value |-> SubSeq(s, f, g - 1)]
        ELSE [ok |-> FALSE, end |-> 0, param |-> << >>, value |-> << >>]

\* GuardFrom with a value that must stand between two quotes
GuardFrom_QuotedOnly(s, q) ==
    LET a == q + 2
        b == SkipClass(s, a, SpaceChars)
        c == SkipClass(s, b + 1, WordChars)
        d == SkipClass(s, c, SpaceChars)
        e == SkipClass(s, d + 1, SpaceChars)
        f == e + 1
        g == SkipClass(s, f, WordChars)
    IN  IF /\ LitAt(s, q, <<"I", "F">>)
           /\ b > a
           /\ At(s, b) = "@"
           /\ c > b + 1
           /\ At(s, d) = "="
           /\ At(s, e) = "'"
           /\ g > f
           /\ At(s, g) = "'"
        THEN [ok |-> TRUE, end |-> g + 1, param |-> SubSeq(s, b, c - 1),
              value |-> SubSeq(s, f, g - 1)]
        ELSE [ok |-> FALSE, end |-> 0, param |-> << >>, value |-> << >>]

\* IF\s+(@\w+)\s*=\s*'?(\w+)'?  anchored at position q
GuardFrom(s, q) ==
    LET a == q + 2
        b == SkipClass(s, a, SpaceChars)
        c == SkipClass(s, b + 1, WordChars)
        d == SkipClass(s, c, SpaceChars)
        e == SkipClass(s, d + 1, SpaceChars)
        f == IF At(s, e) = "'" THEN e + 1 ELSE e
        g == SkipClass(s, f, WordChars)
        h == IF At(s, g) = "'" THEN g + 1 ELSE g
    IN  IF /\ LitAt(s, q, <<"I", "F">>)
           /\ b > a
           /\ At(s, b) = "@"
           /\ c > b + 1
           /\ At(s, d) = "="
           /\ g > f
        THEN [ok |-> TRUE, end |-> h, param |-> SubSeq(s, b, c - 1),
              value |-> SubSeq(s, f, g - 1)]
        ELSE NoMatch

\* MatchAt with a pattern that takes any IF followed by a word for a guard
MatchAt_AnyIf(s, p) ==
    LET a == p + 2
        b == SkipClass(s, a, SpaceChars)
        c == SkipClass(s, b, WordChars \cup {"@"})
    IN  IF LitAt(s, p, <<"I", "F">>) /\ b > a /\ c > b
        THEN [ok |-> TRUE, end |-> c, param |-> SubSeq(s, b, c - 1), value |-> << >>]
        ELSE [ok |-> FALSE, end |-> 0, param |-> << >>, value |-> << >>]

\* (?:ELSE\s+)?IF...  anchored at position p (sql_parser.py:119)
MatchAt(s, p) ==
    LET q == SkipClass(s, p + 4, SpaceChars)
    IN  IF LitAt(s, p, <<"E", "L", "S", "E">>) /\ q > p + 4 /\ GuardFrom(s, q).ok
        THEN GuardFrom(s, q)
        ELSE GuardFrom(s, p)

\* re.split(pattern, sql): the text before each match, then the two groups
\* of the match, and last the text after the final match
RECURSIVE ReSplit(_, _, _)
ReSplit(s, from, p) ==
    IF p > Len(s) THEN << SubSeq(s, from, Len(s)) >>
    ELSE LET m == MatchAt(s, p)
         IN  IF m.ok
             THEN << SubSeq(s, from, p - 1), m.param, m.value >> \o ReSplit(s, m.end, m.end)
             ELSE ReSplit(s, from, p + 1)

\* sql_parser.py:134: f"{param} = '{value}'"
Condition(param, value) == Join(param) \o " = '" \o Join(value) \o "'"

Branch(condition, body) == [condition |-> condition, body |-> body]

VARIABLES
    chunks,      \* the chunk list the text was made from
    sql,         \* the argument of _split_branches
    parts,       \* sql_parser.py:121
    split_i,     \* the index i of sql_parser.py:128
    branches,    \* sql_parser.py:116
    spc          \* position in _split_branches

svars == <<chunks, sql, parts, split_i, branches, spc>>

\* no split is in progress
SplitIdle ==
    /\ chunks = << >>
    /\ sql = << >>
    /\ parts = << >>
    /\ split_i = 0
    /\ branches = << >>
    /\ spc = "idle"

(***************************************************************************)
(* SQLParser (sql_parser.py): texts as token sequences.                    *)
(*                                                                         *)
(* For the parser a text is a sequence of tokens: words (\w+), parameters  *)
(* (@name), quoted literals and punctuation.  Two word tokens that follow  *)
(* each other are separated by blanks; punctuation stands next to its      *)
(* neighbours.  Keywords are written in upper case.  No identifier of the  *)
(* model ends in FROM or JOIN, so the unanchored FROM|JOIN of the fallback *)
(* pattern matches whole tokens only.                                      *)
(***************************************************************************)
MaxSections == 2     \* number of sections (guard + statement) of a procedure

Punctuation == {".", ",", "(", ")", "=", "<>", "*", "[", "]", "+", "..."}
ParamTokens == {"@p", "@q", "@G", "@Code"}
QuotedTokens == {"'1'", "'3'"}
NumberTokens == {"1", "2"}

\* the names of the model that begin with the temp-table marker #
TempNames == {"#T"}

\* \w+
IsWord(tok) == tok \notin Punctuation \cup ParamTokens \cup QuotedTokens \cup TempNames
\* [A-Za-z]\w*
IsName(tok) == IsWord(tok) /\ tok \notin NumberTokens
\* name.startswith('#')
IsTempName(name) == name \in TempNames

\* the value of a guard without its quotes: '?(\w+)'?
Unquote(tok) ==
    CASE tok = "'1'" -> "1"
      [] tok = "'3'" -> "3"
      [] OTHER -> tok

\* token i of a text, "" past either end
Tok(toks, i) == IF i \in 1..Len(toks) THEN toks[i] ELSE ""

\* concatenation of a sequence of token sequences, with sep between them
RECURSIVE Concat(_, _)
Concat(seqs, sep) ==
    IF seqs = << >> THEN << >>
    ELSE IF Len(seqs) = 1 THEN seqs[1]
    ELSE seqs[1] \o sep \o Concat(Tail(seqs), sep)

(***************************************************************************)
(* The syntax tree sqlglot.parse_one returns for a SELECT statement        *)
(* (sql_parser.py:157), reduced to the nodes the extractors visit:         *)
(* exp.Column, exp.Star, exp.Parameter, literals, function calls, sums and  *)
(* CASE in expressions, exp.Table, and the comparisons below exp.Where.     *)
(***************************************************************************)
Col(table, name) == [kind |-> "column", table |-> table, name |-> name, args |-> << >>]
StarExpr         == [kind |-> "star", table |-> "", name |-> "*", args |-> << >>]
Param(name)      == [kind |-> "param", table |-> "", name |-> name, args |-> << >>]
Lit(text)        == [kind |-> "literal", table |-> "", name |-> text, args |-> << >>]
Func(name, args) == [kind |-> "func", table |-> "", name |-> name, args |-> args]
\* left + right
Sum(left, right) == [kind |-> "sum", table |-> "", name |-> "+", args |-> <<left, right>>]
\* CASE WHEN left = right THEN then ELSE else END
Case(left, right, then, else) ==
    [kind |-> "case", table |-> "", name |-> "CASE", args |-> <<left, right, then, else>>]
\* term + ... + term: a sum of more terms than the interpreter allows nested
\* calls, which the grammar reads into a tree of that depth
LongSum(term) == [kind |-> "longsum", table |-> "", name |-> "+", args |-> <<term>>]

\* a comparison: op is "=", "<>", "LIKE", "IN" or "BETWEEN" (high is its
\* upper bound)
Cmp(left, op, right) == [op |-> op, left |-> left, right |-> right, high |-> << >>]
Between(left, low, high) == [op |-> "BETWEEN", left |-> left, right |-> low, high |-> <<high>>]

\* the words of the model that are keywords of the language: as an alias
\* such a word is written in brackets
Keywords == {"SELECT", "FROM", "WHERE", "AND", "AS", "WITH", "ON", "IN", "LIKE", "BETWEEN"}

\* a table of the FROM clause: join is "FROM", "," or "JOIN"
Tbl(join, db, name, as, alias, hint) ==
    [join |-> join, db |-> db, name |-> name, as |-> as, alias |-> alias, hint |-> hint]

\* a SELECT statement; sub holds at most one `left IN (SELECT ...)` subquery
Select(select, from, where, sub) ==
    [select |-> select, from |-> from, where |-> where, sub |-> sub]
SubQuery(left, stmt) == [left |-> left, stmt |-> stmt]

\* the text of an expression
RECURSIVE RenderExpr(_)
RenderExpr(e) ==
    CASE e.kind = "column" -> IF e.table = "" THEN <<e.name>> ELSE <<e.table, ".", e.name>>
      [] e.kind = "func"   ->
            <<e.name, "(">>
            \o Concat([k \in 1..Len(e.args) |-> RenderExpr(e.args[k])], <<",">>)
            \o <<")">>
      [] e.kind = "sum"    -> RenderExpr(e.args[1]) \o <<"+">> \o RenderExpr(e.args[2])
      [] e.kind = "case"   ->
            <<"CASE", "WHEN">> \o RenderExpr(e.args[1]) \o <<"=">> \o RenderExpr(e.args[2])
            \o <<"THEN">> \o RenderExpr(e.args[3])
            \o <<"ELSE">> \o RenderExpr(e.args[4]) \o <<"END">>
      [] e.kind = "longsum" ->
            RenderExpr(e.args[1]) \o <<"+", "...", "+">> \o RenderExpr(e.args[1])
      [] OTHER -> <<e.name>>

RenderCmp(c) ==
    CASE c.op = "IN" -> RenderExpr(c.left) \o <<"IN", "(">> \o RenderExpr(c.right) \o <<")">>
      [] c.op = "BETWEEN" ->
            RenderExpr(c.left) \o <<"BETWEEN">> \o RenderExpr(c.right)
            \o <<"AND">> \o RenderExpr(c.high[1])
      [] OTHER -> RenderExpr(c.left) \o <<c.op>> \o RenderExpr(c.right)

RenderTbl(t) ==
    <<t.join>>
    \o (IF t.db = "" THEN << >> ELSE <<t.db, ".">>)
    \o <<t.name>>
    \o (IF t.as THEN <<"AS">> ELSE << >>)
    \o (IF t.alias = "" THEN << >>
        ELSE IF t.alias \in Keywords THEN <<"[", t.alias, "]">>
        ELSE <<t.alias>>)
    \o (IF t.hint THEN <<"WITH", "(", "NOLOCK", ")">> ELSE << >>)

\* the text of a statement without a subquery
RenderSimple(st) ==
    <<"SELECT">>
    \o Concat([k \in 1..Len(st.select) |-> RenderExpr(st.select[k])], <<",">>)
    \o Concat([k \in 1..Len(st.from) |-> RenderTbl(st.from[k])], << >>)
    \o (IF st.where = << >> THEN << >>
        ELSE <<"WHERE">> \o Concat([k \in 1..Len(st.where) |-> RenderCmp(st.where[k])], <<"AND">>))

\* the text of a statement
Render(st) ==
    RenderSimple(st)
    \o (IF st.sub = << >> THEN << >>
        ELSE <<(IF st.where = << >> THEN "WHERE" ELSE "AND")>>
             \o RenderExpr(st.sub[1].left) \o <<"IN", "(">>
             \o RenderSimple(st.sub[1].stmt) \o <<")">>)

\* the statement as written after _preprocess_sql took its table hints away
WithoutHints(st) ==
    [st EXCEPT !.from = [k \in 1..Len(st.from) |-> [st.from[k] EXCEPT !.hint = FALSE]]]

(***************************************************************************)
(* The statements and guards the procedures of the model are made of.      *)
(***************************************************************************)
NoStatement == Select(<< >>, << >>, << >>, << >>)

Statements ==
    { \* SELECT A.c, A.d FROM T A WHERE A.c = @p
      Select(<<Col("A", "c"), Col("A", "d")>>,
             <<Tbl("FROM", "", "T", FALSE, "A", FALSE)>>,
             <<Cmp(Col("A", "c"), "=", Param("@p"))>>, << >>),
      \* SELECT c FROM #T [ON] WHERE @p = c AND c <> @q
      Select(<<Col("", "c")>>,
             <<Tbl("FROM", "", "#T", FALSE, "ON", FALSE)>>,
             <<Cmp(Param("@p"), "=", Col("", "c")), Cmp(Col("", "c"), "<>", Param("@q"))>>, << >>),
      \* SELECT T.c FROM U T
      Select(<<Col("T", "c")>>,
             <<Tbl("FROM", "", "U", FALSE, "T", FALSE)>>, << >>, << >>),
      \* SELECT T.c FROM T WHERE T.c LIKE @p AND T.c IN (@p) AND T.c BETWEEN @p AND @q
      Select(<<Col("T", "c")>>,
             <<Tbl("FROM", "", "T", FALSE, "", FALSE)>>,
             <<Cmp(Col("T", "c"), "LIKE", Param("@p")),
               Cmp(Col("T", "c"), "IN", Param("@p")),
               Between(Col("T", "c"), Param("@p"), Param("@q"))>>, << >>),
      \* SELECT UPPER(A.c), A.c + A.d FROM dbo.T AS A WITH (NOLOCK) WHERE UPPER(A.d) = @p
      Select(<<Func("UPPER", <<Col("A", "c")>>), Sum(Col("A", "c"), Col("A", "d"))>>,
             <<Tbl("FROM", "dbo", "T", TRUE, "A", TRUE)>>,
             <<Cmp(Func("UPPER", <<Col("A", "d")>>), "=", Param("@p"))>>, << >>),
      \* SELECT A.*, A.c, A.c FROM t A WHERE @p = @q AND A.c = 1
      Select(<<Col("A", "*"), Col("A", "c"), Col("A", "c")>>,
             <<Tbl("FROM", "", "t", FALSE, "A", FALSE)>>,
             <<Cmp(Param("@p"), "=", Param("@q")), Cmp(Col("A", "c"), "=", Lit("1"))>>, << >>),
      \* SELECT A.c FROM dbo.T A WHERE A.d IN (SELECT d FROM #T WHERE d = @p)
      Select(<<Col("A", "c")>>,
             <<Tbl("FROM", "dbo", "T", FALSE, "A", FALSE)>>, << >>,
             <<SubQuery(Col("A", "d"),
                        Select(<<Col("", "d")>>,
                               <<Tbl("FROM", "", "#T", FALSE, "", FALSE)>>,
                               <<Cmp(Col("", "d"), "=", Param("@p"))>>, << >>))>>),
      \* SELECT CASE WHEN A.c = 1 THEN A.d ELSE A.e END FROM T A
      Select(<<Case(Col("A", "c"), Lit("1"), Col("A", "d"), Col("A", "e"))>>,
             <<Tbl("FROM", "", "T", FALSE, "A", FALSE)>>, << >>, << >>),
      \* SELECT A.c + ... + A.c FROM T A
      Select(<<LongSum(Col("A", "c"))>>,
             <<Tbl("FROM", "", "T", FALSE, "A", FALSE)>>, << >>, << >>) }

\* the statements sqlglot is handed whole: _extract_select_statements cuts a
\* text in front of every further SELECT, so a statement with a subquery
\* never reaches the grammar in one piece
Parseable == { WithoutHints(st) : st \in { s \in Statements : s.sub = << >> } }

\* the texts the grammar accepts, each with its tree
Grammar == { [text |-> RenderSimple(st), tree |-> st] : st \in Parseable }

\* the n-th guard of a procedure: IF first, ELSE IF behind it; the second is
\* written without quotes
GuardText(n) ==
    CASE n = 1 -> <<"IF", "@G", "=", "'1'">>
      [] n = 2 -> <<"ELSE", "IF", "@G", "=", "2">>
      [] OTHER -> <<"ELSE", "IF", "@G", "=", "'3'">>

\* CREATE PROC dbo.P @Code int AS
Header == <<"CREATE", "PROC", "dbo", ".", "P", "@Code", "int", "AS">>

\* a section: a statement, with a guard in front of it or not
Section == [guarded : BOOLEAN, stmt : Statements]

\* a procedure: an optional header and then the sections
Procedure ==
    UNION { [header : {h}, sections : SeqsUpTo(Section, MaxSections - (IF h THEN 1 ELSE 0))]
            : h \in BOOLEAN }

\* the text of section k: its guard, which is the next of the chain, and its
\* statement
RenderSection(secs, k) ==
    (IF secs[k].guarded
     THEN GuardText(Cardinality({ j \in 1..k : secs[j].guarded }))
     ELSE << >>)
    \o (IF secs[k].stmt = NoStatement THEN << >> ELSE Render(secs[k].stmt))

\* the text of a procedure
ProcedureText(proc) ==
    (IF proc.header THEN Header ELSE << >>)
    \o Concat([k \in 1..Len(proc.sections) |-> RenderSection(proc.sections, k)], << >>)

(***************************************************************************)
(* SQLParser: header, branches, statements (sql_parser.py:89-199).         *)
(***************************************************************************)
\* sql_parser.py:91: CREATE PROC[EDURE] schema.name; group 2 of the first match
RECURSIVE ProcNameFrom(_, _)
ProcNameFrom(toks, i) ==
    IF i > Len(toks) THEN ""
    ELSE IF /\ Tok(toks, i) = "CREATE"
            /\ Tok(toks, i + 1) \in {"PROC", "PROCEDURE"}
            /\ IsWord(Tok(toks, i + 2))
            /\ Tok(toks, i + 3) = "."
            /\ IsWord(Tok(toks, i + 4))
         THEN Tok(toks, i + 4)
         ELSE ProcNameFrom(toks, i + 1)

_extract_proc_name(toks) == ProcNameFrom(toks, 1)

\* sql_parser.py:103: the text from CREATE PROC to the first AS behind it
HeaderOf(toks) ==
    LET starts == { i \in 1..Len(toks) :
                      Tok(toks, i) = "CREATE" /\ Tok(toks, i + 1) \in {"PROC", "PROCEDURE"} }
    IN  IF starts = {} THEN << >>
        ELSE LET s    == CHOOSE i \in starts : \A j \in starts : i <= j
                 ends == { j \in (s + 2)..Len(toks) : toks[j] = "AS" }
             IN  IF ends = {} THEN << >>
                 ELSE SubSeq(toks, s, (CHOOSE j \in ends : \A k \in ends : j <= k) - 1)

\* sql_parser.py:100, 106-111, for parameters whose type is one word:
\* @name type [= default], followed by a comma, a parenthesis or the end
RECURSIVE ParamsFrom(_, _)
ParamsFrom(h, i) ==
    IF i > Len(h) THEN << >>
    ELSE IF Tok(h, i) \in ParamTokens /\ IsWord(Tok(h, i + 1))
         THEN IF Tok(h, i + 2) = "=" /\ Tok(h, i + 3) \notin {"", ",", ")"}
                 /\ Tok(h, i + 4) \in {"", ",", ")"}
              THEN <<[name |-> h[i], type |-> h[i + 1], default |-> h[i + 3]]>>
                   \o ParamsFrom(h, i + 4)
              ELSE IF Tok(h, i + 2) \in {"", ",", ")"}
              THEN <<[name |-> h[i], type |-> h[i + 1], default |-> ""]>>
                   \o ParamsFrom(h, i + 2)
              ELSE ParamsFrom(h, i + 1)
         ELSE ParamsFrom(h, i + 1)

_extract_parameters(toks) == ParamsFrom(HeaderOf(toks), 1)

\* sql_parser.py:119 on tokens: [ELSE] IF @param = value, the value quoted or not
TokGuardFrom(toks, q) ==
    IF /\ Tok(toks, q) = "IF"
       /\ Tok(toks, q + 1) \in ParamTokens
       /\ Tok(toks, q + 2) = "="
       /\ (Tok(toks, q + 3) \in QuotedTokens \/ IsWord(Tok(toks, q + 3)))
       /\ Tok(toks, q + 3) # ""
    THEN [ok |-> TRUE, end |-> q + 4, param |-> toks[q + 1], value |-> Unquote(toks[q + 3])]
    ELSE [ok |-> FALSE, end |-> 0, param |-> "", value |-> ""]

TokMatchAt(toks, p) ==
    IF Tok(toks, p) = "ELSE" /\ TokGuardFrom(toks, p + 1).ok
    THEN TokGuardFrom(toks, p + 1)
    ELSE TokGuardFrom(toks, p)

\* sql_parser.py:121: re.split; the texts are wrapped so that every entry of
\* parts is a sequence
RECURSIVE TokSplit(_, _, _)
TokSplit(toks, from, p) ==
    IF p > Len(toks) THEN << SubSeq(toks, from, Len(toks)) >>
    ELSE LET m == TokMatchAt(toks, p)
         IN  IF m.ok
             THEN << SubSeq(toks, from, p - 1), <<m.param>>, <<m.value>> >>
                  \o TokSplit(toks, m.end, m.end)
             ELSE TokSplit(toks, from, p + 1)

\* sql_parser.py:128-136; Python's parts[i] is parts[i + 1] here
RECURSIVE BranchLoop(_, _)
BranchLoop(pieces, i) ==
    IF i >= Len(pieces) THEN << >>
    ELSE (IF i + 2 < Len(pieces)
          THEN << [condition |-> pieces[i + 1][1] \o " = '" \o pieces[i + 2][1] \o "'",
                   body |-> pieces[i + 3]] >>
          ELSE << >>)
         \o BranchLoop(pieces, i + 3)

\* sql_parser.py:114-142
_split_branches(toks) ==
    LET pieces == TokSplit(toks, 1, 1)
        found == IF Len(pieces) = 1
                 THEN << [condition |-> "", body |-> toks] >>
                 ELSE BranchLoop(pieces, 1)
    IN  IF found = << >> THEN << [condition |-> "", body |-> toks] >> ELSE found

\* sql_parser.py:198: \s+with\s*\([^)]+\) is taken out
RECURSIVE _preprocess_sql(_)
_preprocess_sql(toks) ==
    IF toks = << >> THEN << >>
    ELSE LET closes == { j \in 3..Len(toks) : toks[j] = ")" }
         IN  IF /\ Len(toks) >= 5
                /\ IsWord(toks[1]) /\ toks[2] = "WITH" /\ toks[3] = "("
                /\ \E j \in closes : j >= 5
                /\ Tok(toks, 4) # ")"
             THEN LET j == CHOOSE k \in closes : \A l \in closes : k <= l
                  IN  <<toks[1]>> \o _preprocess_sql(SubSeq(toks, j + 1, Len(toks)))
             ELSE <<toks[1]>> \o _preprocess_sql(Tail(toks))

StopWords == {"SELECT", "INSERT", "UPDATE", "DELETE", "IF", "ELSE", "END"}

\* sql_parser.py:186-191: every text from a SELECT to the next stop word
RECURSIVE SelectsFrom(_, _)
SelectsFrom(toks, i) ==
    IF i > Len(toks) THEN << >>
    ELSE IF toks[i] = "SELECT"
         THEN LET stops == { j \in (i + 1)..Len(toks) : toks[j] \in StopWords }
                  e == IF stops = {} THEN Len(toks) + 1
                       ELSE CHOOSE j \in stops : \A k \in stops : j <= k
              IN  << SubSeq(toks, i, e - 1) >> \o SelectsFrom(toks, e)
         ELSE SelectsFrom(toks, i + 1)

\* sql_parser.py:181-193
_extract_select_statements(toks) ==
    IF SelectsFrom(toks, 1) = << >> THEN << toks >> ELSE SelectsFrom(toks, 1)

\* sqlglot.parse_one (sql_parser.py:157): the tree of a text the grammar
\* accepts, as a one-element sequence; << >> when it raises
parse_one(toks) ==
    LET trees == { g \in Grammar : g.text = toks }
    IN  IF trees = {} THEN << >> ELSE << (CHOOSE g \in trees : TRUE).tree >>

(***************************************************************************)
(* SQLParser: the two extraction strategies (sql_parser.py:201-370).       *)
(***************************************************************************)
ParsedTable(name, alias, is_temp, branch) ==
    [name |-> name, alias |-> alias, is_temp |-> is_temp, branch |-> branch]

ParsedColumn(table, column, is_select, is_where, parameter, branch) ==
    [table |-> table, column |-> column, is_select |-> is_select,
     is_where |-> is_where, parameter |-> parameter, branch |-> branch]

ParsedBranch(condition, tables, select_columns, where_columns) ==
    [condition |-> condition, tables |-> tables,
     select_columns |-> select_columns, where_columns |-> where_columns]

\* sql_parser.py:213 and 326
AliasBlacklist ==
    {"WHERE", "WITH", "ON", "AND", "OR", "LEFT", "RIGHT", "INNER", "OUTER", "CROSS"}

\* KeptAlias without the blacklist: every alias found is kept
KeptAlias_Always(alias) == alias

\* sql_parser.py:213-214
KeptAlias(alias) == IF alias # "" /\ Upper(alias) \in AliasBlacklist THEN "" ELSE alias

\* AliasPut that leaves an alias it already holds as it is
AliasPut_KeepsFirst(amap, alias, name) ==
    [k \in DOMAIN amap \cup {alias} |-> IF k \in DOMAIN amap THEN amap[k] ELSE name]

\* self.alias_map[alias] = name
AliasPut(amap, alias, name) ==
    [k \in DOMAIN amap \cup {alias} |-> IF k = alias THEN name ELSE amap[k]]

\* sql_parser.py:279-280: table = self.alias_map[table] if table in self.alias_map
Resolve(amap, table) == IF table \in DOMAIN amap THEN amap[table] ELSE table

\* sql_parser.py:201-229: the exp.Table nodes in the order of the FROM clause;
\* table.name is the name without its schema
RECURSIVE _extract_tables_from_ast(_, _, _, _)
_extract_tables_from_ast(ast, branch, amap, k) ==
    IF k > Len(ast.from) THEN [tables |-> << >>, alias_map |-> amap]
    ELSE LET name  == ast.from[k].name
             alias == KeptAlias(ast.from[k].alias)
             amap1 == IF alias # "" THEN AliasPut(amap, alias, name) ELSE amap
             rest  == _extract_tables_from_ast(ast, branch, amap1, k + 1)
         IN  [tables |-> <<ParsedTable(name, alias, IsTempName(name), branch)>> \o rest.tables,
              alias_map |-> rest.alias_map]

\* sql_parser.py:270-309
RECURSIVE _extract_column_refs(_, _, _, _, _, _)
_extract_column_refs(expr, amap, branch, is_select, is_where, parameter) ==
    CASE expr.kind = "column" ->
            <<ParsedColumn(Resolve(amap, expr.table), expr.name,
                           is_select, is_where, parameter, branch)>>
      [] expr.kind = "star" ->
            <<ParsedColumn(Resolve(amap, ""), "*", is_select, FALSE, "", branch)>>
      [] OTHER ->
            Concat([k \in 1..Len(expr.args) |->
                       _extract_column_refs(expr.args[k], amap, branch,
                                            is_select, is_where, parameter)], << >>)

\* sql_parser.py:231-241
_extract_select_columns_from_ast(ast, amap, branch) ==
    Concat([k \in 1..Len(ast.select) |->
               _extract_column_refs(ast.select[k], amap, branch, TRUE, FALSE, "")], << >>)

\* sql_parser.py:257, 260: the side is a parameter
IsParameter(expr) == expr.kind = "param"

\* _extract_where_columns_from_ast with the nodes other than exp.Column
\* opposite the parameter left out
WhereColumnsOf_ColumnOnly(c, amap, branch) ==
    IF c.op # "=" THEN << >>
    ELSE IF IsParameter(c.right) /\ c.left.kind = "column"
    THEN _extract_column_refs(c.left, amap, branch, FALSE, TRUE, c.right.name)
    ELSE IF IsParameter(c.left) /\ ~IsParameter(c.right) /\ c.right.kind = "column"
    THEN _extract_column_refs(c.right, amap, branch, FALSE, TRUE, c.left.name)
    ELSE << >>

\* sql_parser.py:249-266, for one comparison below the WHERE node
WhereColumnsOf(c, amap, branch) ==
    IF c.op # "=" THEN << >>
    ELSE IF IsParameter(c.right)
    THEN _extract_column_refs(c.left, amap, branch, FALSE, TRUE, c.right.name)
    ELSE IF IsParameter(c.left)
    THEN _extract_column_refs(c.right, amap, branch, FALSE, TRUE, c.left.name)
    ELSE << >>

\* sql_parser.py:243-268 (statements of at most two equalities, which
\* find_all visits in the order they are written)
_extract_where_columns_from_ast(ast, amap, branch) ==
    Concat([k \in 1..Len(ast.where) |-> WhereColumnsOf(ast.where[k], amap, branch)], << >>)

\* sql_parser.py:316-337: (?:FROM|JOIN)\s+\[?(#?\w+)\]?(?:\s+(?:AS\s+)?([A-Za-z]\w*))?
\* from token i on; a match takes its alias token with it
RECURSIVE TablesRegexFrom(_, _, _, _)
TablesRegexFrom(toks, branch, amap, i) ==
    IF i > Len(toks) THEN [tables |-> << >>, alias_map |-> amap]
    ELSE IF toks[i] \in {"FROM", "JOIN"}
            /\ (IsWord(Tok(toks, i + 1)) \/ IsTempName(Tok(toks, i + 1)))
            /\ Tok(toks, i + 1) # ""
         THEN LET name == toks[i + 1]
                  a1   == Tok(toks, i + 2)
                  a2   == Tok(toks, i + 3)
                  found == IF a1 = "AS" /\ IsName(a2) /\ a2 # "" THEN <<a2, i + 4>>
                           ELSE IF IsName(a1) /\ a1 # "" THEN <<a1, i + 3>>
                           ELSE <<"", i + 2>>
                  alias == KeptAlias(found[1])
                  amap1 == IF alias # "" THEN AliasPut(amap, alias, name) ELSE amap
                  rest  == TablesRegexFrom(toks, branch, amap1, found[2])
              IN  [tables |-> <<ParsedTable(name, alias, IsTempName(name), branch)>>
                              \o rest.tables,
                   alias_map |-> rest.alias_map]
         ELSE TablesRegexFrom(toks, branch, amap, i + 1)

\* _extract_tables_regex with is_temp left at its default
_extract_tables_regex_NoTemp(toks, branch, amap) ==
    LET t == TablesRegexFrom(toks, branch, amap, 1)
    IN  [tables |-> [i \in 1..Len(t.tables) |-> [t.tables[i] EXCEPT !.is_temp = FALSE]],
         alias_map |-> t.alias_map]

_extract_tables_regex(toks, branch, amap) == TablesRegexFrom(toks, branch, amap, 1)

\* sql_parser.py:353-368: (\w+)\.(\w+|\*) over the select clause
RECURSIVE PairsFrom(_, _, _, _)
PairsFrom(clause, branch, amap, i) ==
    IF i + 2 > Len(clause) THEN << >>
    ELSE IF /\ IsWord(clause[i]) /\ clause[i + 1] = "."
            /\ (IsWord(clause[i + 2]) \/ clause[i + 2] = "*")
         THEN <<ParsedColumn(Resolve(amap, clause[i]), clause[i + 2], TRUE, FALSE, "", branch)>>
              \o PairsFrom(clause, branch, amap, i + 3)
         ELSE PairsFrom(clause, branch, amap, i + 1)

\* sql_parser.py:341-370: SELECT\s+(.*?)\s+FROM, the first SELECT and the
\* first FROM behind it
_extract_select_columns_regex(toks, branch, amap) ==
    LET selects == { i \in 1..Len(toks) : toks[i] = "SELECT" }
    IN  IF selects = {} THEN << >>
        ELSE LET s     == CHOOSE i \in selects : \A j \in selects : i <= j
                 froms == { j \in (s + 2)..Len(toks) : toks[j] = "FROM" }
             IN  IF froms = {} THEN << >>
                 ELSE LET f == CHOOSE j \in froms : \A k \in froms : j <= k
                      IN  PairsFrom(SubSeq(toks, s + 1, f - 1), branch, amap, 1)

(***************************************************************************)
(* SQLParser._parse_branch (sql_parser.py:144-179).                        *)
(***************************************************************************)
\* PrimaryExtraction with the columns resolved before the statement's tables
\* have been entered in the alias map
PrimaryExtraction_ColumnsFirst(ast, branch, amap) ==
    LET t == _extract_tables_from_ast(ast, branch, amap, 1)
    IN  [tables |-> t.tables,
         select_columns |-> _extract_select_columns_from_ast(ast, amap, branch),
         where_columns |-> _extract_where_columns_from_ast(ast, amap, branch),
         alias_map |-> t.alias_map,
         strategy |-> "primary"]

\* sql_parser.py:157-169: the grammar accepted the statement
PrimaryExtraction(ast, branch, amap) ==
    LET t == _extract_tables_from_ast(ast, branch, amap, 1)
    IN  [tables |-> t.tables,
         select_columns |-> _extract_select_columns_from_ast(ast, t.alias_map, branch),
         where_columns |-> _extract_where_columns_from_ast(ast, t.alias_map, branch),
         alias_map |-> t.alias_map,
         strategy |-> "primary"]

\* sql_parser.py:171-177: it raised
FallbackExtraction(toks, branch, amap) ==
    LET t == _extract_tables_regex(toks, branch, amap)
    IN  [tables |-> t.tables,
         select_columns |-> _extract_select_columns_regex(toks, branch, t.alias_map),
         where_columns |-> << >>,
         alias_map |-> t.alias_map,
         strategy |-> "fallback"]

\* sql_parser.py:304-307 calls itself once for every level of the tree: a
\* tree deeper than the interpreter's recursion limit ends the call with a
\* RecursionError, which is an Exception
RECURSIVE ExceedsRecursionLimit(_)
ExceedsRecursionLimit(expr) ==
    \/ expr.kind = "longsum"
    \/ \E k \in 1..Len(expr.args) : ExceedsRecursionLimit(expr.args[k])

\* the step of the try block that raises on a tree: "select" (164), "where"
\* (168) or "" when none does
RaisingStep(ast) ==
    IF \E k \in 1..Len(ast.select) : ExceedsRecursionLimit(ast.select[k]) THEN "select"
    ELSE IF \E k \in 1..Len(ast.where) :
               /\ ast.where[k].op = "="
               /\ \/ IsParameter(ast.where[k].right) /\ ExceedsRecursionLimit(ast.where[k].left)
                  \/ /\ ~IsParameter(ast.where[k].right) /\ IsParameter(ast.where[k].left)
                     /\ ExceedsRecursionLimit(ast.where[k].right)
         THEN "where"
    ELSE ""

\* sql_parser.py:157-177: the grammar accepted the statement and a later step
\* of the try block raised: what the steps before it added to the branch
\* (161, 165) stays, and the except block adds the fallback's results
InterruptedExtraction(ast, toks, branch, amap) ==
    LET t == _extract_tables_from_ast(ast, branch, amap, 1)
        s == IF RaisingStep(ast) = "where"
             THEN _extract_select_columns_from_ast(ast, t.alias_map, branch)
             ELSE << >>
        f == _extract_tables_regex(toks, branch, t.alias_map)
    IN  [tables |-> t.tables \o f.tables,
         select_columns |-> s \o _extract_select_columns_regex(toks, branch, f.alias_map),
         where_columns |-> << >>,
         alias_map |-> f.alias_map,
         strategy |-> "fallback"]

\* Extract with a failure of the grammar passed on to the caller
Extract_NoFallback(toks, branch, amap) ==
    IF parse_one(toks) # << >>
    THEN PrimaryExtraction(parse_one(toks)[1], branch, amap)
    ELSE [tables |-> << >>, select_columns |-> << >>, where_columns |-> << >>,
          alias_map |-> amap, strategy |-> "raised"]

\* sql_parser.py:156-177: one statement
Extract(toks, branch, amap) ==
    IF parse_one(toks) = << >> THEN FallbackExtraction(toks, branch, amap)
    ELSE IF RaisingStep(parse_one(toks)[1]) # ""
    THEN InterruptedExtraction(parse_one(toks)[1], toks, branch, amap)
    ELSE PrimaryExtraction(parse_one(toks)[1], branch, amap)

\* sql_parser.py:154-177: the statements of the branch in turn
RECURSIVE ExtractAll(_, _, _, _)
ExtractAll(stmts, k, condition, amap) ==
    IF k > Len(stmts)
    THEN [branch |-> ParsedBranch(condition, << >>, << >>, << >>),
          alias_map |-> amap, strategies |-> << >>]
    ELSE LET x    == Extract(stmts[k], condition, amap)
             rest == ExtractAll(stmts, k + 1, condition, x.alias_map)
         IN  [branch |-> ParsedBranch(condition,
                                      x.tables \o rest.branch.tables,
                                      x.select_columns \o rest.branch.select_columns,
                                      x.where_columns \o rest.branch.where_columns),
              alias_map |-> rest.alias_map,
              strategies |-> <<x.strategy>> \o rest.strategies]

\* sql_parser.py:144-179
_parse_branch(condition, toks, amap) ==
    ExtractAll(_extract_select_statements(_preprocess_sql(toks)), 1, condition, amap)

(***************************************************************************)
(* State of one run of the analyzer's parser phase                         *)
(* (gemini_analyzer.py:173-175, sql_parser.py:58-87).                      *)
(***************************************************************************)
VARIABLES
    procedure,       \* the procedure under analysis, as a document
    sql_text,        \* its text, the argument of parse
    alias_map,       \* self.alias_map of the parser, sql_parser.py:59
    split,           \* branches, sql_parser.py:72
    branch_i,        \* position of the loop of sql_parser.py:75
    extracted,       \* branch, sql_parser.py:76, until it is added to result
    result,          \* result, sql_parser.py:63
    strategies,      \* per branch, the strategy that extracted each statement
    parser_hint,     \* gemini_analyzer.py:175
    previous,        \* an earlier procedure has been analysed in this run
    ppc              \* position in analyze

pvars == <<procedure, sql_text, alias_map, split, branch_i, extracted, result,
           strategies, parser_hint, previous, ppc>>

NoProcedure == [header |-> FALSE, sections |-> << >>]

\* sql_parser.py:44-52: ParseResult()
ParseResult(procedure_name, parameters, brs, all_tables, all_select_columns, all_where_columns, amap) ==
    [procedure_name |-> procedure_name, parameters |-> parameters, branches |-> brs,
     all_tables |-> all_tables, all_select_columns |-> all_select_columns,
     all_where_columns |-> all_where_columns, alias_map |-> amap]

EmptyResult == ParseResult("", << >>, << >>, << >>, << >>, << >>, << >>)

\* no analysis is in progress
ParseIdle ==
    /\ procedure = NoProcedure
    /\ sql_text = << >>
    /\ alias_map = << >>
    /\ split = << >>
    /\ branch_i = 0
    /\ extracted = << >>
    /\ result = EmptyResult
    /\ strategies = << >>
    /\ parser_hint = << >>
    /\ previous = FALSE
    /\ ppc = "idle"

(***************************************************************************)
(* State of GeminiAnalyzer across calls of analyze, with its retry on a    *)
(* 429 answer (gemini_analyzer.py:143-162, 164-225).                       *)
(***************************************************************************)
VARIABLES
    api_keys,            \* self.api_keys, gemini_analyzer.py:146
    current_key_index,   \* self.current_key_index, gemini_analyzer.py:147
    frames,              \* the calls of analyze on the stack
    key_uses,            \* requests sent with each key during the call
    exhausted,           \* the keys the service answers with 429
    raised_error,        \* the exception being handled or raised to the caller
    apc                  \* position in analyze

avars == <<api_keys, current_key_index, frames, key_uses, exhausted, raised_error, apc>>

\* no analyzer has been constructed
RetryIdle ==
    /\ api_keys = << >>
    /\ current_key_index = 0
    /\ frames = 0
    /\ key_uses = << >>
    /\ exhausted = {}
    /\ raised_error = ""
    /\ apc = "none"

(***************************************************************************)
(* State of one analysis request.                                          *)
(***************************************************************************)
VARIABLES
    analysis,            \* the AnalysisResult handed to process_mapping
    pc,                  \* position in process_mapping / run
    alias_to_table,      \* main.py:48
    derived_tables,      \* main.py:50
    column_requests,     \* main.py:63
    table_requests,      \* main.py:64
    input_column_keys,   \* main.py:70
    output_column_keys,  \* main.py:87
    star_column_tables,  \* main.py:88
    input_derived_set,   \* main.py:66
    output_derived_set,  \* main.py:67
    column_cache,        \* main.py:117
    table_cache,         \* main.py:118
    input_tables,        \* main.py:42
    input_columns,       \* main.py:43
    output_tables,       \* main.py:44
    output_columns,      \* main.py:45
    output_table_set,    \* main.py:158
    star_i,              \* index of the star loop, main.py:161
    sent,                \* the requests that reached the store, in order
    store_failed,        \* some request ended other than "ok"
    outcome,             \* how process_mapping ended
    report               \* how the report writer ended

mvars == <<analysis, pc, alias_to_table, derived_tables, column_requests,
           table_requests, input_column_keys, output_column_keys,
           star_column_tables, input_derived_set, output_derived_set,
           column_cache, table_cache, input_tables, input_columns,
           output_tables, output_columns, output_table_set, star_i, sent,
           store_failed, outcome, report>>

(***************************************************************************)
(* process_mapping, stage 1 (main.py:47-107).                              *)
(***************************************************************************)
NoAlias == "<None>"       \* Python's None in the alias slot of a key

\* main.py:48-54: later tables overwrite earlier entries
RECURSIVE AliasToTable(_, _)
AliasToTable(tables, n) ==
    IF n = 0 THEN << >>
    ELSE LET prev == AliasToTable(tables, n - 1)
             t    == tables[n]
             keys == DOMAIN prev \cup {t.name} \cup (IF t.alias # "" THEN {t.alias} ELSE {})
         IN  [k \in keys |->
                 IF k = t.name \/ (t.alias # "" /\ k = t.alias) THEN t.name ELSE prev[k]]

\* main.py:50, 55-58
DerivedTables(tables) ==
    UNION { IF tables[i].is_derived
            THEN {tables[i].name} \cup (IF tables[i].alias # "" THEN {tables[i].alias} ELSE {})
            ELSE {} : i \in 1..Len(tables) }

\* main.py:74 / 93: alias_to_table.get(tbl, tbl)
OriginalTable(a2t, tbl) == IF tbl \in DOMAIN a2t THEN a2t[tbl] ELSE tbl

\* EffectiveDerived without the is_derived hint of the reference
EffectiveDerived_NoHint(a2t, derived, ref) ==
    \/ ref.table \in derived
    \/ OriginalTable(a2t, ref.table) \in derived

\* main.py:75 / 94
EffectiveDerived(a2t, derived, ref) ==
    \/ ref.is_derived
    \/ ref.table \in derived
    \/ OriginalTable(a2t, ref.table) \in derived

\* main.py:78 / 97
DerivedAlias(a2t, derived, ref) ==
    IF ref.table \in derived THEN ref.table ELSE OriginalTable(a2t, ref.table)

\* main.py:79,82 / 98,105: the key tuple recorded for one reference
ColumnKey(a2t, derived, ref) ==
    IF EffectiveDerived(a2t, derived, ref)
    THEN [table |-> OriginalTable(a2t, ref.table), column |-> ref.column,
          is_derived |-> TRUE, alias |-> DerivedAlias(a2t, derived, ref)]
    ELSE [table |-> OriginalTable(a2t, ref.table), column |-> ref.column,
          is_derived |-> FALSE, alias |-> NoAlias]

KeysOf(a2t, derived, refs) == [i \in 1..Len(refs) |-> ColumnKey(a2t, derived, refs[i])]

\* main.py:100: an output reference that goes to star expansion
IsStarKey(k) == ~k.is_derived /\ k.column = "*"

IsPlainKey(k)   == ~k.is_derived /\ k.column # "*"
IsLookupKey(k)  == ~k.is_derived
NotStarKey(k)   == ~IsStarKey(k)

RequestOf(k) == <<k.table, k.column>>
SeqMapRequest(keys) == [i \in 1..Len(keys) |-> RequestOf(keys[i])]

\* main.py:71-84: input loop
InputColumnKeys(a2t, derived, refs) == KeysOf(a2t, derived, refs)
InputColumnRequests(a2t, derived, refs) ==
    SeqMapRequest(SelectSeq(KeysOf(a2t, derived, refs), IsLookupKey))

\* main.py:90-107: output loop
OutputColumnKeys(a2t, derived, refs) == SelectSeq(KeysOf(a2t, derived, refs), NotStarKey)
OutputColumnRequests(a2t, derived, refs) ==
    SeqMapRequest(SelectSeq(KeysOf(a2t, derived, refs), IsPlainKey))
StarColumnTables(a2t, derived, refs) ==
    LET stars == SelectSeq(KeysOf(a2t, derived, refs), IsStarKey)
    IN  [i \in 1..Len(stars) |->
            [table |-> stars[i].table, is_derived |-> FALSE, alias |-> NoAlias]]

DerivedSetOf(keys) == { keys[i].alias : i \in { j \in 1..Len(keys) : keys[j].is_derived } }
LookupTablesOf(keys) == { keys[i].table : i \in { j \in 1..Len(keys) : ~keys[j].is_derived } }

InitMapping ==
    /\ analysis \in AnalysisResult
    /\ pc = "collect"
    /\ alias_to_table = << >>
    /\ derived_tables = {}
    /\ column_requests = << >>
    /\ table_requests = {}
    /\ input_column_keys = << >>
    /\ output_column_keys = << >>
    /\ star_column_tables = << >>
    /\ input_derived_set = {}
    /\ output_derived_set = {}
    /\ column_cache = << >>
    /\ table_cache = << >>
    /\ input_tables = << >>
    /\ input_columns = << >>
    /\ output_tables = << >>
    /\ output_columns = << >>
    /\ output_table_set = {}
    /\ star_i = 1
    /\ sent = << >>
    /\ store_failed = FALSE
    /\ outcome = "running"
    /\ report = "none"
    /\ SplitIdle
    /\ ParseIdle
    /\ RetryIdle

\* main.py:47-107
CollectRequests ==
    /\ pc = "collect"
    /\ LET a2t     == AliasToTable(analysis.tables, Len(analysis.tables))
           derived == DerivedTables(analysis.tables)
           inkeys  == KeysOf(a2t, derived, analysis.input_columns)
           outkeys == KeysOf(a2t, derived, analysis.output_columns)
       IN  /\ alias_to_table' = a2t
           /\ derived_tables' = derived
           /\ input_column_keys' = InputColumnKeys(a2t, derived, analysis.input_columns)
           /\ output_column_keys' = OutputColumnKeys(a2t, derived, analysis.output_columns)
           /\ star_column_tables' = StarColumnTables(a2t, derived, analysis.output_columns)
           /\ column_requests' =
                 InputColumnRequests(a2t, derived, analysis.input_columns)
                 \o OutputColumnRequests(a2t, derived, analysis.output_columns)
           /\ table_requests' = LookupTablesOf(inkeys) \cup LookupTablesOf(outkeys)
           /\ input_derived_set' = DerivedSetOf(inkeys)
           /\ output_derived_set' = DerivedSetOf(outkeys)
    /\ pc' = "batch_columns"
    /\ UNCHANGED <<analysis, column_cache, table_cache, input_tables, input_columns,
                   output_tables, output_columns, output_table_set, star_i, sent,
                   store_failed, outcome, report>>
    /\ UNCHANGED <<svars, pvars, avars>>

(***************************************************************************)
(* process_mapping, stage 2 (main.py:109-118): the batched lookups.        *)
(***************************************************************************)
\* main.py:113: list(set(column_requests)); Python compares the pairs exactly
UniqueColumnRequests(requests) == Range(requests)

\* a request that reached the store, and the keys or records that came back
StoreRequest(op, keys, answer) == [op |-> op, keys |-> keys, answer |-> answer]

\* main.py:117
GetColumnsBatch ==
    /\ pc = "batch_columns"
    /\ LET reqs == UniqueColumnRequests(column_requests)
       IN  IF reqs = {}
           THEN /\ column_cache' = << >>
                /\ UNCHANGED <<sent, store_failed>>
           ELSE \E o \in QueryOutcomes :
                /\ column_cache' = get_columns_batch(reqs, o)
                /\ sent' = Append(sent, StoreRequest("columns", reqs, DOMAIN column_cache'))
                /\ store_failed' = (store_failed \/ o # "ok")
    /\ pc' = "batch_tables"
    /\ UNCHANGED <<analysis, alias_to_table, derived_tables, column_requests,
                   table_requests, input_column_keys, output_column_keys,
                   star_column_tables, input_derived_set, output_derived_set,
                   table_cache, input_tables, input_columns, output_tables,
                   output_columns, output_table_set, star_i, outcome, report>>
    /\ UNCHANGED <<svars, pvars, avars>>

\* main.py:118
GetTablesBatch ==
    /\ pc = "batch_tables"
    /\ IF table_requests = {}
       THEN /\ table_cache' = << >>
            /\ UNCHANGED <<sent, store_failed>>
       ELSE \E o \in QueryOutcomes :
            /\ table_cache' = get_tables_batch(table_requests, o)
            /\ sent' = Append(sent, StoreRequest("tables", table_requests, DOMAIN table_cache'))
            /\ store_failed' = (store_failed \/ o # "ok")
    /\ pc' = "resolve_input"
    /\ UNCHANGED <<analysis, alias_to_table, derived_tables, column_requests,
                   table_requests, input_column_keys, output_column_keys,
                   star_column_tables, input_derived_set, output_derived_set,
                   column_cache, input_tables, input_columns, output_tables,
                   output_columns, output_table_set, star_i, outcome, report>>
    /\ UNCHANGED <<svars, pvars, avars>>

(***************************************************************************)
(* process_mapping, stage 3 (main.py:120-216): records from the caches.    *)
(***************************************************************************)
\* main.py:138-143, 172-177, 197-202: append unless (table_eng, col_eng) is there
AddIfNew(cols, info) ==
    IF \E i \in 1..Len(cols) :
           cols[i].table_eng = info.table_eng /\ cols[i].col_eng = info.col_eng
    THEN cols
    ELSE Append(cols, info)

\* main.py:127-134 / 187-193
ResolveKey(cache, k) ==
    IF k.is_derived
    THEN create_derived_column_info(k.alias, k.column)
    ELSE CacheGet(cache, <<Upper(k.table), Upper(k.column)>>,
                  create_unmapped_column_info(k.table, k.column))

\* main.py:126-143 / 186-202: the loop over the first n keys
RECURSIVE ResolveAll(_, _, _, _)
ResolveAll(cols, cache, keys, n) ==
    IF n = 0 THEN cols
    ELSE AddIfNew(ResolveAll(cols, cache, keys, n - 1), ResolveKey(cache, keys[n]))

\* the loop of main.py:170-177 over a list of records
RECURSIVE AddAll(_, _, _)
AddAll(cols, infos, n) ==
    IF n = 0 THEN cols ELSE AddIfNew(AddAll(cols, infos, n - 1), infos[n])

\* main.py:146-151 / 205-210
TableInfoFor(cache, table_name) ==
    CacheGet(cache, Upper(table_name), create_unmapped_table_info(table_name))

\* main.py:146-155 / 205-214: the tables in set order, then the inline views
TableInfos(cache, table_set, derived_set) ==
    { [i \in 1..Len(ts) |-> TableInfoFor(cache, ts[i])]
      \o [i \in 1..Len(ds) |-> create_derived_table_info(ds[i])] :
        ts \in Orderings(table_set), ds \in Orderings(derived_set) }

\* main.py:124-155
ResolveInput ==
    /\ pc = "resolve_input"
    /\ input_columns' = ResolveAll(<< >>, column_cache, input_column_keys,
                                   Len(input_column_keys))
    /\ input_tables' \in TableInfos(table_cache, LookupTablesOf(input_column_keys),
                                    input_derived_set)
    /\ pc' = "star"
    /\ UNCHANGED <<analysis, alias_to_table, derived_tables, column_requests,
                   table_requests, input_column_keys, output_column_keys,
                   star_column_tables, input_derived_set, output_derived_set,
                   column_cache, table_cache, output_tables, output_columns,
                   output_table_set, star_i, sent, store_failed, outcome, report>>
    /\ UNCHANGED <<svars, pvars, avars>>

\* main.py:161-183: one iteration of the SELECT * loop
StarExpand ==
    /\ pc = "star"
    /\ star_i <= Len(star_column_tables)
    /\ LET e == star_column_tables[star_i]
       IN  IF e.is_derived
           THEN /\ output_columns' =
                      Append(output_columns, create_derived_column_info(e.alias, "*"))
                /\ UNCHANGED <<output_table_set, sent, store_failed>>
           ELSE \E o \in QueryOutcomes :
                /\ sent' = Append(sent, StoreRequest("all_columns", {e.table},
                                        get_all_columns_for_table(e.table, o)))
                /\ store_failed' = (store_failed \/ o # "ok")
                /\ LET all_cols == get_all_columns_for_table(e.table, o)
                   IN  IF all_cols # {}
                       THEN \E l \in Orderings(all_cols) :
                                output_columns' = AddAll(output_columns, l, Len(l))
                       ELSE output_columns' =
                                Append(output_columns,
                                       create_unmapped_column_info(e.table, "*"))
                /\ output_table_set' = output_table_set \cup {e.table}
    /\ star_i' = star_i + 1
    /\ UNCHANGED <<analysis, pc, alias_to_table, derived_tables, column_requests,
                   table_requests, input_column_keys, output_column_keys,
                   star_column_tables, input_derived_set, output_derived_set,
                   column_cache, table_cache, input_tables, input_columns,
                   output_tables, outcome, report>>
    /\ UNCHANGED <<svars, pvars, avars>>

\* main.py:185-216
ResolveOutput ==
    /\ pc = "star"
    /\ star_i > Len(star_column_tables)
    /\ output_columns' = ResolveAll(output_columns, column_cache, output_column_keys,
                                    Len(output_column_keys))
    /\ output_table_set' = output_table_set \cup LookupTablesOf(output_column_keys)
    /\ output_tables' \in TableInfos(table_cache, output_table_set', output_derived_set)
    /\ outcome' = "returned"
    /\ pc' = "write"
    /\ UNCHANGED <<analysis, alias_to_table, derived_tables, column_requests,
                   table_requests, input_column_keys, output_column_keys,
                   star_column_tables, input_derived_set, output_derived_set,
                   column_cache, table_cache, input_tables, input_columns,
                   star_i, sent, store_failed, report>>
    /\ UNCHANGED <<svars, pvars, avars>>

(***************************************************************************)
(* The report writer (main.py:308-316, excel_writer.py:156-190, 245-257).  *)
(***************************************************************************)
\* excel_writer.py:169-179: the attributes read from each record
RenderedAttributes ==
    {"table_kor", "table_eng", "col_kor", "col_eng", "data_type", "length",
     "pk", "fk", "old_table_eng"}

\* ExcelWriter._write_column_info: AttributeError on the first record that
\* lacks one of the attributes it reads
_write_column_info(column_infos) ==
    IF \A i \in 1..Len(column_infos) : RenderedAttributes \subseteq DOMAIN column_infos[i]
    THEN "written"
    ELSE "AttributeError"

\* main.py:310-311: the input sheet, then the output sheet
WriteReport ==
    /\ pc = "write"
    /\ report' = IF _write_column_info(input_columns) = "written"
                 THEN _write_column_info(output_columns)
                 ELSE "AttributeError"
    /\ pc' = "end"
    /\ UNCHANGED <<analysis, alias_to_table, derived_tables, column_requests,
                   table_requests, input_column_keys, output_column_keys,
                   star_column_tables, input_derived_set, output_derived_set,
                   column_cache, table_cache, input_tables, input_columns,
                   output_tables, output_columns, output_table_set, star_i, sent,
                   store_failed, outcome>>
    /\ UNCHANGED <<svars, pvars, avars>>

vars == <<mvars, svars, pvars, avars>>

NextMapping ==
    \/ CollectRequests
    \/ GetColumnsBatch
    \/ GetTablesBatch
    \/ ResolveInput
    \/ StarExpand
    \/ ResolveOutput
    \/ WriteReport

SpecMapping == InitMapping /\ [][NextMapping]_vars

(***************************************************************************)
(* Properties of process_mapping.                                          *)
(***************************************************************************)
Returned == outcome = "returned"

SentOf(op) == { i \in 1..Len(sent) : sent[i].op = op }

\* the references of the analysis, input and output alike
AllRefs == Range(analysis.input_columns) \cup Range(analysis.output_columns)

\* C1: when a lookup of the store ends in a non-zero exit status, a timeout
\* or an unreachable store, the analysis request fails: process_mapping does
\* not return record lists to its caller.
C1_StoreFailureIsFatal == store_failed => ~Returned

\* C2: one analysis sends at most one request for all column lookups and at
\* most one for all table lookups, and no further round trip is made for a
\* repeated reference: no request is sent to the store twice.
C2_RoundTripsDoNotGrow ==
    /\ Cardinality(SentOf("columns")) <= 1
    /\ Cardinality(SentOf("tables")) <= 1
    /\ \A i, j \in 1..Len(sent) :
          (sent[i].op = sent[j].op /\ sent[i].keys = sent[j].keys) => i = j

SameKey(t1, c1, t2, c2) == Upper(t1) = Upper(t2) /\ Upper(c1) = Upper(c2)

LookupKeys ==
    { k \in Range(input_column_keys) \cup Range(output_column_keys) : ~k.is_derived }

\* C3: a (table, column) key requested several times, keys compared without
\* regard to case, is sent to the store once, and every occurrence resolves
\* to the identical record.
C3_OneLookupPerKey ==
    pc \in {"resolve_input", "star", "write", "end"} =>
        /\ \A i \in SentOf("columns") : \A q1, q2 \in sent[i].keys :
              SameKey(q1[1], q1[2], q2[1], q2[2]) => q1 = q2
        /\ \A k1, k2 \in LookupKeys :
              SameKey(k1.table, k1.column, k2.table, k2.column)
                  => ResolveKey(column_cache, k1) = ResolveKey(column_cache, k2)

\* the references that count as derived: the hint, the reference's own table
\* name in the derived set, or its canonical name in the derived set
Canonical(ref) ==
    IF ref.table \in DOMAIN alias_to_table THEN alias_to_table[ref.table] ELSE ref.table

CountsAsDerived(ref) ==
    ref.is_derived \/ ref.table \in derived_tables \/ Canonical(ref) \in derived_tables

\* the name an inline-view record is built from
InlineViewName(ref) ==
    IF ref.table \in derived_tables THEN ref.table ELSE Canonical(ref)

IsInlineViewRecord(rec, name, column) ==
    /\ ~rec.is_mapped
    /\ rec.table_kor = InlineViewMarker \o name
    /\ rec.table_eng = InlineViewMarker \o name
    /\ rec.col_eng = column

NoDerivedNameSent ==
    \A i \in 1..Len(sent) :
        IF sent[i].op = "columns"
        THEN \A q \in sent[i].keys : q[1] \notin derived_tables
        ELSE sent[i].keys \cap derived_tables = {}

\* the requests that the lookups of non-derived references account for
RequestsOfPlainRefs ==
    { <<Canonical(r), r.column>> : r \in { x \in AllRefs : ~CountsAsDerived(x) /\ x.column # "*" } }
    \cup { <<Canonical(r), r.column>> :
             r \in { x \in Range(analysis.input_columns) : ~CountsAsDerived(x) } }

IsUnmappedRecord(rec) ==
    /\ ~rec.is_mapped
    /\ rec.table_kor = UnmappedMarker \o rec.table_eng
    /\ rec.col_kor = UnmappedMarker \o rec.col_eng

\* C5: a key absent from the store resolves to a synthesized unmapped record
\* with a marked display name, and the report writers render the resulting
\* records without error.
C5_UnmappedIsRenderable ==
    /\ Returned =>
          \A k \in LookupKeys :
              <<Upper(k.table), Upper(k.column)>> \notin DOMAIN column_cache =>
                  \E rec \in Range(input_columns) \cup Range(output_columns) :
                      IsUnmappedRecord(rec) /\ rec.table_eng = k.table /\ rec.col_eng = k.column
    /\ (pc = "end" /\ \E rec \in Range(input_columns) \cup Range(output_columns) :
                          IsUnmappedRecord(rec))
          => report = "written"

NoDuplicateIdentity(cols) ==
    \A i, j \in 1..Len(cols) :
        (cols[i].table_eng = cols[j].table_eng /\ cols[i].col_eng = cols[j].col_eng) => i = j

\* C6: after process_mapping neither column list holds two records with the
\* same (table_eng, col_eng).
C6_NoDuplicateRecords ==
    Returned => NoDuplicateIdentity(input_columns) /\ NoDuplicateIdentity(output_columns)

\* the canonical tables of the output references that go to star expansion
StarTables ==
    { Canonical(r) : r \in { x \in Range(analysis.output_columns) :
                                 ~CountsAsDerived(x) /\ x.column = "*" } }

\* what the store answered to the star requests for a table
StarAnswers(tb) ==
    UNION { sent[i].answer : i \in { j \in SentOf("all_columns") : sent[j].keys = {tb} } }

\* C7: an output * on a non-derived table is not sent as a single-column
\* lookup; every column the store returns for the table is in the output,
\* and when the store returns none the output holds exactly one unmapped *
\* record for the table.
C7_StarExpansion ==
    Returned =>
        \A tb \in StarTables :
            /\ \A i \in SentOf("columns") : <<tb, "*">> \notin sent[i].keys
            /\ \A info \in StarAnswers(tb) :
                  \E rec \in Range(output_columns) :
                      rec.table_eng = info.table_eng /\ rec.col_eng = info.col_eng
            /\ StarAnswers(tb) = {} =>
                  Cardinality({ i \in 1..Len(output_columns) :
                                   /\ output_columns[i].table_eng = tb
                                   /\ output_columns[i].col_eng = "*"
                                   /\ ~output_columns[i].is_mapped }) = 1

(***************************************************************************)
(* _split_branches as a state machine.                                     *)
(***************************************************************************)
\* mapping state while only the splitter runs
MappingIdle ==
    /\ analysis = [tables |-> << >>, input_columns |-> << >>, output_columns |-> << >>]
    /\ pc = "idle"
    /\ alias_to_table = << >>
    /\ derived_tables = {}
    /\ column_requests = << >>
    /\ table_requests = {}
    /\ input_column_keys = << >>
    /\ output_column_keys = << >>
    /\ star_column_tables = << >>
    /\ input_derived_set = {}
    /\ output_derived_set = {}
    /\ column_cache = << >>
    /\ table_cache = << >>
    /\ input_tables = << >>
    /\ input_columns = << >>
    /\ output_tables = << >>
    /\ output_columns = << >>
    /\ output_table_set = {}
    /\ star_i = 1
    /\ sent = << >>
    /\ store_failed = FALSE
    /\ outcome = "idle"
    /\ report = "none"

InitSplit ==
    /\ chunks \in SeqsUpTo(Chunks, MaxChunks)
    /\ sql = Flatten(chunks)
    /\ parts = << >>
    /\ split_i = 0
    /\ branches = << >>
    /\ spc = "split"
    /\ MappingIdle
    /\ ParseIdle
    /\ RetryIdle

\* sql_parser.py:121-128: re.split, then either the single branch or the loop
SplitText ==
    /\ spc = "split"
    /\ parts' = ReSplit(sql, 1, 1)
    /\ IF Len(parts') = 1
       THEN /\ branches' = << Branch("", Join(sql)) >>
            /\ split_i' = split_i
            /\ spc' = "check"
       ELSE /\ branches' = << >>
            /\ split_i' = 1
            /\ spc' = "loop"
    /\ UNCHANGED <<chunks, sql>>
    /\ UNCHANGED <<mvars, pvars, avars>>

\* TakeBranch with the bound of the test off by one (i + 3 < len(parts))
TakeBranch_StrictBound ==
    /\ spc = "loop"
    /\ split_i < Len(parts)
    /\ branches' =
          IF split_i + 3 < Len(parts)
          THEN Append(branches,
                      Branch(Condition(parts[split_i + 1], parts[split_i + 2]),
                             Join(parts[split_i + 3])))
          ELSE branches
    /\ split_i' = split_i + 3
    /\ UNCHANGED <<chunks, sql, parts, spc>>
    /\ UNCHANGED <<mvars, pvars, avars>>

\* sql_parser.py:129-136: one iteration; Python's parts[i] is parts[split_i + 1]
TakeBranch ==
    /\ spc = "loop"
    /\ split_i < Len(parts)
    /\ branches' =
          IF split_i + 2 < Len(parts)
          THEN Append(branches,
                      Branch(Condition(parts[split_i + 1], parts[split_i + 2]),
                             Join(parts[split_i + 3])))
          ELSE branches
    /\ split_i' = split_i + 3
    /\ UNCHANGED <<chunks, sql, parts, spc>>
    /\ UNCHANGED <<mvars, pvars, avars>>

\* sql_parser.py:129: the loop condition fails
LeaveLoop ==
    /\ spc = "loop"
    /\ split_i >= Len(parts)
    /\ spc' = "check"
    /\ UNCHANGED <<chunks, sql, parts, split_i, branches>>
    /\ UNCHANGED <<mvars, pvars, avars>>

\* sql_parser.py:138-142
ReturnBranches ==
    /\ spc = "check"
    /\ branches' = IF branches = << >> THEN << Branch("", Join(sql)) >> ELSE branches
    /\ spc' = "done"
    /\ UNCHANGED <<chunks, sql, parts, split_i>>
    /\ UNCHANGED <<mvars, pvars, avars>>

NextSplit ==
    \/ SplitText
    \/ TakeBranch
    \/ LeaveLoop
    \/ ReturnBranches

SpecSplit == InitSplit /\ [][NextSplit]_vars

(***************************************************************************)
(* Properties of _split_branches, stated on the document structure.        *)
(***************************************************************************)
SplitDone == spc = "done"

\* the positions of the guard chunks, and the n-th of them
GuardIdx == { k \in 1..Len(chunks) : chunks[k].kind = "guard" }

NthGuard(n) ==
    CHOOSE k \in GuardIdx : Cardinality({ j \in GuardIdx : j <= k }) = n

\* the position of the guard after the n-th one, or the end of the document
NextGuard(n) ==
    IF n < Cardinality(GuardIdx) THEN NthGuard(n + 1) ELSE Len(chunks) + 1

\* the text from the end of the guard written at position a to position b
TextAfterGuard(a, b) == <<" ">> \o Flatten(SubSeq(chunks, a + 1, b - 1))

\* the text from the end of what the pattern takes of the guard at position a
\* to position b
TextBetween(a, b) == chunks[a].rest \o TextAfterGuard(a, b)

\* the guard's @param = 'value' as written, and with the value cut to its
\* leading run of word characters
StatedCondition(k) == chunks[k].param \o " = '" \o chunks[k].value \o "'"
GuardCondition(k) == chunks[k].param \o " = '" \o chunks[k].word \o "'"

\* C8: for a text with no IF guard the splitter returns exactly one branch,
\* with the empty condition and the whole text as its body.
C8_NoGuardOneBranch ==
    (SplitDone /\ GuardIdx = {}) =>
        /\ Len(branches) = 1
        /\ branches[1].condition = ""
        /\ branches[1].body = Join(Flatten(chunks))

\* a text with an IF that is no guard has been split
C8_Witness ==
    /\ SplitDone
    /\ GuardIdx = {}
    /\ \E k \in 1..Len(chunks) : chunks[k].text[1] = "I"
    /\ Len(branches) = 1

\* C9 (as amended): for a text with N >= 1 guards whose value starts with a
\* word character the splitter returns exactly N branches in document order;
\* the n-th condition is the n-th guard's @param = 'w', w being the leading
\* run of word characters of its value, and the n-th body is the text from
\* the end of that run (and of a closing quote right behind it) to the start
\* of the next guard or the end of the text.
C9_BranchesInDocumentOrder ==
    (SplitDone /\ GuardIdx # {}) =>
        /\ Len(branches) = Cardinality(GuardIdx)
        /\ \A n \in 1..Cardinality(GuardIdx) :
              /\ n <= Len(branches)
              /\ branches[n].condition = GuardCondition(NthGuard(n))
              /\ branches[n].body = Join(TextBetween(NthGuard(n), NextGuard(n)))

\* C9 as stated: the n-th condition is the n-th guard's @param = 'value' and
\* the n-th body is the text between the end of the n-th guard and the start
\* of the next one.
C9_AsStated ==
    (SplitDone /\ GuardIdx # {}) =>
        /\ Len(branches) = Cardinality(GuardIdx)
        /\ \A n \in 1..Cardinality(GuardIdx) :
              /\ n <= Len(branches)
              /\ branches[n].condition = StatedCondition(NthGuard(n))
              /\ branches[n].body = Join(TextAfterGuard(NthGuard(n), NextGuard(n)))

\* two guards with text after each have been split
C9_Witness ==
    /\ SplitDone
    /\ Cardinality(GuardIdx) = 2
    /\ Len(branches) = 2
    /\ branches[1].condition # branches[2].condition
    /\ Len(branches[1].body) > 1
    /\ Len(branches[2].body) > 1
    /\ \E k \in GuardIdx : chunks[k].word # chunks[k].value

\* BEGIN/END depth in front of position k
Depth(k) ==
    Cardinality({ j \in 1..(k - 1) : chunks[j].kind = "begin" })
    - Cardinality({ j \in 1..(k - 1) : chunks[j].kind = "end" })

\* a guard inside the BEGIN ... END block of an earlier guard's body
NestedGuards ==
    { k \in GuardIdx : Depth(k) > 0 /\ \E g \in GuardIdx : g < k /\ Depth(g) = 0 }

GuardRank(k) == Cardinality({ j \in GuardIdx : j <= k })

\* C10 (as amended): every guard-shaped IF splits the text, at whatever
\* depth: a guard nested in a branch's body produces a branch of its own,
\* and the enclosing branch's body ends where the nested guard starts.
C10_NestedGuardSplits ==
    SplitDone =>
        \A k \in NestedGuards :
            /\ Len(branches) >= GuardRank(k)
            /\ branches[GuardRank(k)].condition = GuardCondition(k)
            /\ branches[GuardRank(k) - 1].body
                  = Join(TextBetween(NthGuard(GuardRank(k) - 1), k))
            /\ Len(branches) > Cardinality(GuardIdx \ NestedGuards)

C10_Witness ==
    /\ SplitDone
    /\ NestedGuards # {}
    /\ Len(branches) >= 2

\* C10 as stated: only top-level guards split, so a nested guard adds no
\* branch.
C10_AsStated ==
    (SplitDone /\ NestedGuards # {}) =>
        Len(branches) = Cardinality(GuardIdx \ NestedGuards)

\* the guards written with fewer than two quotes around the value
Quotes(k) == Cardinality({ j \in 1..Len(chunks[k].text) : chunks[k].text[j] = "'" })
LooseGuards == { k \in GuardIdx : Quotes(k) < 2 }

\* the chunks that look like a guard or a block but are not well formed: a
\* guard without a value, and an END with no BEGIN before it
Malformed ==
    { k \in 1..Len(chunks) :
        \/ chunks[k].kind = "malformed"
        \/ chunks[k].kind = "end" /\ Depth(k) <= 0 }

\* the last guard in front of position k, 0 when there is none
GuardBefore(k) ==
    IF \E g \in GuardIdx : g < k
    THEN CHOOSE g \in GuardIdx : g < k /\ \A h \in GuardIdx : h < k => h <= g
    ELSE 0

\* C11: the splitter always ends with at least one branch, and every read of
\* parts stays inside it (parts holds one text and then three entries per
\* match); a guard whose value has no quotes, or only the opening one, is a
\* guard of its own; a malformed guard or an unbalanced END splits nothing:
\* it stays in the body that runs from the guard before it to the next guard,
\* or in the single branch of a text without guards.
C11_SplitterNeverFails ==
    /\ spc \in {"loop", "check", "done"} =>
          /\ Len(parts) % 3 = 1
          /\ \A j \in 1..Len(parts) : parts[j] \in Seq(SpaceChars \cup WordChars \cup {"@", "=", "'", "-"})
    /\ spc = "loop" => split_i % 3 = 1
    /\ SplitDone =>
          /\ Len(branches) >= 1
          /\ \A k \in LooseGuards :
                /\ Len(branches) >= GuardRank(k)
                /\ branches[GuardRank(k)].condition = GuardCondition(k)
          /\ \A k \in Malformed :
                /\ Len(branches) = IF GuardIdx = {} THEN 1 ELSE Cardinality(GuardIdx)
                /\ LET g == GuardBefore(k)
                   IN  g # 0 =>
                          branches[GuardRank(g)].body
                             = Join(TextBetween(g, NextGuard(GuardRank(g))))

\* a text with an unquoted guard and a malformed one behind it has been split
C11_Witness ==
    /\ SplitDone
    /\ \E k \in LooseGuards : Quotes(k) = 0
    /\ \E k \in Malformed : chunks[k].kind = "malformed" /\ GuardBefore(k) # 0
    /\ Len(branches) >= 1

(***************************************************************************)
(* SQLParser.to_structured_text (sql_parser.py:372-438).                   *)
(*                                                                         *)
(* The hint is a sequence of lines and a line a sequence of the pieces the *)
(* f-string puts together.  The Korean headings are written in ASCII.      *)
(***************************************************************************)
TitleLine      == <<"## SQL parser result">>            \* sql_parser.py:376
BlankLine      == <<"">>
ProcedureHead  == "### procedure: "                     \* sql_parser.py:381
ParametersLine == <<"### parameters">>                  \* sql_parser.py:386
TablesLine     == <<"### tables">>                      \* sql_parser.py:400
SelectLine     == <<"### select columns by branch">>    \* sql_parser.py:409
WhereLine      == <<"### input columns (WHERE)">>       \* sql_parser.py:428

\* the entries of seq whose key occurs for the first time (keys[i] is the
\* key of seq[i]); the order of a dict and of the `seen` loops
RECURSIVE KeepFirst(_, _, _)
KeepFirst(seq, keys, i) ==
    IF i > Len(seq) THEN << >>
    ELSE (IF \E j \in 1..(i - 1) : keys[j] = keys[i] THEN << >> ELSE <<seq[i]>>)
         \o KeepFirst(seq, keys, i + 1)

\* sql_parser.py:393-397
UniqueTables(all_tables) ==
    KeepFirst(all_tables, [i \in 1..Len(all_tables) |-> all_tables[i].name], 1)

\* sql_parser.py:402-404
TableLine(t) ==
    <<"- ", t.name>>
    \o (IF t.alias # "" THEN <<" (alias: ", t.alias, ")">> ELSE << >>)
    \o (IF t.is_temp THEN <<" [temp]">> ELSE << >>)

\* sql_parser.py:388-389
ParameterLine(p) ==
    <<"- ", p.name, ": ", p.type>>
    \o (IF p.default # "" THEN <<" = ", p.default>> ELSE << >>)

\* sql_parser.py:421-422 and 434-435
ShownTable(col) == IF col.table # "" THEN col.table ELSE "?"
SelectColumnLine(col) == <<"- ", ShownTable(col), ".", col.column>>
WhereColumnLine(col) == <<"- ", ShownTable(col), ".", col.column, " <- ", col.parameter>>

\* sql_parser.py:411-414; the "\n" the heading starts with is the blank line
\* in front of it
BranchHead(condition) ==
    IF condition # "" THEN <<"**[", condition, "]**">> ELSE <<"**[", "default", "]**">>

\* sql_parser.py:411-422
BranchLines(b) ==
    LET cols == KeepFirst(b.select_columns,
                          [i \in 1..Len(b.select_columns) |->
                              <<b.select_columns[i].table, b.select_columns[i].column>>], 1)
    IN  << BlankLine, BranchHead(b.condition) >>
        \o [i \in 1..Len(cols) |-> SelectColumnLine(cols[i])]

\* sql_parser.py:380-382
ProcedureSection(res) ==
    IF res.procedure_name # "" THEN << <<ProcedureHead, res.procedure_name>>, BlankLine >>
    ELSE << >>

\* sql_parser.py:385-390
ParameterSection(res) ==
    IF res.parameters # << >>
    THEN <<ParametersLine>>
         \o [i \in 1..Len(res.parameters) |-> ParameterLine(res.parameters[i])]
         \o <<BlankLine>>
    ELSE << >>

\* sql_parser.py:393-405
TableSection(res) ==
    LET unique_tables == UniqueTables(res.all_tables)
    IN  IF unique_tables # << >>
        THEN <<TablesLine>>
             \o [i \in 1..Len(unique_tables) |-> TableLine(unique_tables[i])]
             \o <<BlankLine>>
        ELSE << >>

\* sql_parser.py:408-423
SelectSection(res) ==
    IF res.branches # << >>
    THEN <<SelectLine>>
         \o Concat([i \in 1..Len(res.branches) |-> BranchLines(res.branches[i])], << >>)
         \o <<BlankLine>>
    ELSE << >>

\* sql_parser.py:426-436
WhereSection(res) ==
    LET where_cols == SelectSeq(res.all_where_columns, LAMBDA c : c.parameter # "")
        shown == KeepFirst(where_cols,
                           [i \in 1..Len(where_cols) |->
                               <<where_cols[i].table, where_cols[i].column,
                                 where_cols[i].parameter>>], 1)
    IN  IF where_cols # << >>
        THEN <<WhereLine>>
             \o [i \in 1..Len(shown) |-> WhereColumnLine(shown[i])]
             \o <<BlankLine>>
        ELSE << >>

\* to_structured_text with the table list behind the column lists
to_structured_text_TablesLast(res) ==
    <<TitleLine, BlankLine>>
    \o ProcedureSection(res) \o ParameterSection(res)
    \o SelectSection(res) \o WhereSection(res) \o TableSection(res)

\* sql_parser.py:372-438
to_structured_text(res) ==
    <<TitleLine, BlankLine>>
    \o ProcedureSection(res) \o ParameterSection(res) \o TableSection(res)
    \o SelectSection(res) \o WhereSection(res)

(***************************************************************************)
(* GeminiAnalyzer.analyze, phase 0 (gemini_analyzer.py:173-175), with      *)
(* SQLParser.parse taken one branch at a time (sql_parser.py:61-87).       *)
(***************************************************************************)
\* Analyze with the parser of the procedure before kept for the next one
Analyze_ReusesParser ==
    /\ ppc = "idle"
    /\ procedure' \in Procedure
    /\ sql_text' = ProcedureText(procedure')
    /\ alias_map' = alias_map
    /\ split' = << >>
    /\ branch_i' = 0
    /\ extracted' = << >>
    /\ result' = EmptyResult
    /\ strategies' = << >>
    /\ parser_hint' = << >>
    /\ ppc' = "parse"
    /\ UNCHANGED <<mvars, svars, avars, previous>>

\* gemini_analyzer.py:173: a procedure text arrives and parser = SQLParser()
\* gives it a parser of its own (sql_parser.py:58-59)
Analyze ==
    /\ ppc = "idle"
    /\ procedure' \in Procedure
    /\ sql_text' = ProcedureText(procedure')
    /\ alias_map' = << >>
    /\ split' = << >>
    /\ branch_i' = 0
    /\ extracted' = << >>
    /\ result' = EmptyResult
    /\ strategies' = << >>
    /\ parser_hint' = << >>
    /\ ppc' = "parse"
    /\ UNCHANGED <<mvars, svars, avars, previous>>

\* sql_parser.py:63-72
ParseBegin ==
    /\ ppc = "parse"
    /\ result' = [EmptyResult EXCEPT !.procedure_name = _extract_proc_name(sql_text),
                                     !.parameters = _extract_parameters(sql_text)]
    /\ split' = _split_branches(sql_text)
    /\ branch_i' = 1
    /\ ppc' = "branches"
    /\ UNCHANGED <<procedure, sql_text, alias_map, extracted, strategies, parser_hint,
                   previous>>
    /\ UNCHANGED <<mvars, svars, avars>>

\* sql_parser.py:75-76: the next branch is extracted
ParseBranch ==
    /\ ppc = "branches"
    /\ branch_i <= Len(split)
    /\ LET b == _parse_branch(split[branch_i].condition, split[branch_i].body, alias_map)
       IN  /\ extracted' = << [branch |-> b.branch, strategies |-> b.strategies] >>
           /\ alias_map' = b.alias_map
    /\ ppc' = "extracted"
    /\ UNCHANGED <<procedure, sql_text, split, branch_i, result, strategies, parser_hint,
                   previous>>
    /\ UNCHANGED <<mvars, svars, avars>>

\* Aggregate with the where columns of the branch left out of the whole
Aggregate_WithoutWhere ==
    /\ ppc = "extracted"
    /\ result' =
          [result EXCEPT
              !.branches = Append(@, extracted[1].branch),
              !.all_tables = @ \o extracted[1].branch.tables,
              !.all_select_columns = @ \o extracted[1].branch.select_columns]
    /\ strategies' = Append(strategies, extracted[1].strategies)
    /\ extracted' = << >>
    /\ branch_i' = branch_i + 1
    /\ ppc' = "branches"
    /\ UNCHANGED <<procedure, sql_text, alias_map, split, parser_hint, previous>>
    /\ UNCHANGED <<mvars, svars, avars>>

\* sql_parser.py:77-82: the branch is added to result and to the lists of the
\* whole procedure
Aggregate ==
    /\ ppc = "extracted"
    /\ result' =
          [result EXCEPT
              !.branches = Append(@, extracted[1].branch),
              !.all_tables = @ \o extracted[1].branch.tables,
              !.all_select_columns = @ \o extracted[1].branch.select_columns,
              !.all_where_columns = @ \o extracted[1].branch.where_columns]
    /\ strategies' = Append(strategies, extracted[1].strategies)
    /\ extracted' = << >>
    /\ branch_i' = branch_i + 1
    /\ ppc' = "branches"
    /\ UNCHANGED <<procedure, sql_text, alias_map, split, parser_hint, previous>>
    /\ UNCHANGED <<mvars, svars, avars>>

\* ParseEnd without waiting for the loop to end
ParseEnd_Early ==
    /\ ppc = "branches"
    /\ result' = [result EXCEPT !.alias_map = alias_map]
    /\ ppc' = "parsed"
    /\ UNCHANGED <<procedure, sql_text, alias_map, split, branch_i, extracted,
                   strategies, parser_hint, previous>>
    /\ UNCHANGED <<mvars, svars, avars>>

\* sql_parser.py:85-87
ParseEnd ==
    /\ ppc = "branches"
    /\ branch_i > Len(split)
    /\ result' = [result EXCEPT !.alias_map = alias_map]
    /\ ppc' = "parsed"
    /\ UNCHANGED <<procedure, sql_text, alias_map, split, branch_i, extracted,
                   strategies, parser_hint, previous>>
    /\ UNCHANGED <<mvars, svars, avars>>

\* gemini_analyzer.py:175
ToStructuredText ==
    /\ ppc = "parsed"
    /\ parser_hint' = to_structured_text(result)
    /\ ppc' = "hinted"
    /\ UNCHANGED <<procedure, sql_text, alias_map, split, branch_i, extracted, result,
                   strategies, previous>>
    /\ UNCHANGED <<mvars, svars, avars>>

\* gemini_analyzer.py:173-175: the phase is over; parser and parse_result are
\* locals of analyze that nothing refers to any more
Return ==
    /\ ppc = "hinted"
    /\ procedure' = NoProcedure
    /\ sql_text' = << >>
    /\ split' = << >>
    /\ branch_i' = 0
    /\ extracted' = << >>
    /\ result' = EmptyResult
    /\ strategies' = << >>
    /\ parser_hint' = << >>
    /\ previous' = TRUE
    /\ ppc' = "idle"
    /\ UNCHANGED alias_map
    /\ UNCHANGED <<mvars, svars, avars>>

InitParse ==
    /\ ParseIdle
    /\ MappingIdle
    /\ SplitIdle
    /\ RetryIdle

NextParse ==
    \/ Analyze
    \/ ParseBegin
    \/ ParseBranch
    \/ Aggregate
    \/ ParseEnd
    \/ ToStructuredText
    \/ Return

SpecParse == InitParse /\ [][NextParse]_vars

Parsed == ppc \in {"parsed", "hinted"}
Hinted == ppc = "hinted"

(***************************************************************************)
(* Properties of SQLParser.parse.                                          *)
(***************************************************************************)
\* the statements _parse_branch takes from the body of branch k
StatementsOf(k) == _extract_select_statements(_preprocess_sql(split[k].body))

\* the branches parse has been through
Done == 1..Len(strategies)

NamesOf(tables) == { tables[i].name : i \in 1..Len(tables) }
PairsOf(columns) == { <<columns[i].table, columns[i].column>> : i \in 1..Len(columns) }

\* C12: whenever the grammar raises on a statement of a branch, the fallback
\* extracts that statement, and parse returns a ParseResult with one entry
\* for every branch of the splitter: no strategy other than the primary and
\* the fallback ever ends a statement, and what the fallback finds in the
\* statement is in the branch.
C12_FallbackAbsorbsFailure ==
    /\ \A k \in Done :
          /\ Len(strategies[k]) = Len(StatementsOf(k))
          /\ k <= Len(result.branches)
          /\ \A j \in 1..Len(strategies[k]) :
                /\ strategies[k][j] \in {"primary", "fallback"}
                /\ parse_one(StatementsOf(k)[j]) = << >> =>
                      /\ strategies[k][j] = "fallback"
                      /\ NamesOf(_extract_tables_regex(StatementsOf(k)[j], "", << >>).tables)
                            \subseteq NamesOf(result.branches[k].tables)
    /\ Parsed =>
          /\ Len(result.branches) = Len(split)
          /\ Len(strategies) = Len(split)

\* a statement the grammar rejects has been extracted by the fallback, and a
\* branch without any statement has come out empty
C12_Witness ==
    /\ Parsed
    /\ \E k \in Done :
          /\ "fallback" \in Range(strategies[k])
          /\ result.branches[k].tables # << >>
    /\ \E k \in Done :
          /\ strategies[k] = <<"fallback">>
          /\ result.branches[k].tables = << >>
          /\ result.branches[k].select_columns = << >>

\* the fallback strategy on every statement of a list, as ExtractAll runs the
\* statements
RECURSIVE FallbackAll(_, _, _, _)
FallbackAll(stmts, k, condition, amap) ==
    IF k > Len(stmts) THEN [tables |-> << >>, select_columns |-> << >>]
    ELSE LET x    == FallbackExtraction(stmts[k], condition, amap)
             rest == FallbackAll(stmts, k + 1, condition, x.alias_map)
         IN  [tables |-> x.tables \o rest.tables,
              select_columns |-> x.select_columns \o rest.select_columns]

\* the first branch was extracted by the primary strategy alone
PrimaryOnly(k) == k \in Done /\ strategies[k] # << >> /\ Range(strategies[k]) = {"primary"}

\* C13: for a branch text both strategies can process, the primary and the
\* fallback strategy give the same set of table names and the same set of
\* (table, column) select-column identities.
C13_StrategiesAgree ==
    PrimaryOnly(1) =>
        LET f == FallbackAll(StatementsOf(1), 1, split[1].condition, << >>)
        IN  /\ NamesOf(result.branches[1].tables) = NamesOf(f.tables)
            /\ PairsOf(result.branches[1].select_columns) = PairsOf(f.select_columns)

\* the columns an expression refers to
RECURSIVE Leaves(_)
Leaves(e) ==
    IF e.kind \in {"column", "star"} THEN {e}
    ELSE UNION { Leaves(e.args[i]) : i \in 1..Len(e.args) }

\* the aliases a statement declares in its FROM clause, and the table of one
DeclaredAliases(ast) == { ast.from[i].alias : i \in 1..Len(ast.from) } \ {""}
TableOfAlias(ast, a) == (CHOOSE t \in Range(ast.from) : t.alias = a).name

\* the statements of branch k the grammar accepted, as trees
TreesOf(k) ==
    { parse_one(StatementsOf(k)[j])[1] :
        j \in { i \in 1..Len(StatementsOf(k)) : parse_one(StatementsOf(k)[i]) # << >> } }

BoundPairs(columns) == { <<columns[i].column, columns[i].parameter>> : i \in 1..Len(columns) }

\* the comparisons below the WHERE node of the statements of branch k that
\* the grammar accepted
ComparisonsOf(k) == UNION { Range(ast.where) : ast \in TreesOf(k) }

RECURSIVE ParseBranches(_, _, _)
ParseBranches(brs, k, amap) ==
    IF k > Len(brs) THEN [branches |-> << >>, alias_map |-> amap]
    ELSE LET b    == _parse_branch(brs[k].condition, brs[k].body, amap)
             rest == ParseBranches(brs, k + 1, b.alias_map)
         IN  [branches |-> <<b.branch>> \o rest.branches, alias_map |-> rest.alias_map]

\* what a parser that has parsed nothing before makes of a text: its alias
\* map and the tables of its column references, branch by branch
ParsedAlone(toks) == ParseBranches(_split_branches(toks), 1, << >>)

\* C16: the alias map and the column resolutions of a procedure's ParseResult
\* depend on its text only: a procedure analysed after another one gets the
\* result it gets when it is analysed alone.
C16_AliasRegistryPerProcedure ==
    (Parsed /\ previous) =>
        /\ result.alias_map = ParsedAlone(sql_text).alias_map
        /\ result.branches = ParsedAlone(sql_text).branches
        /\ DOMAIN result.alias_map \subseteq
              UNION { { b.tables[i].alias : i \in 1..Len(b.tables) } : b \in Range(result.branches) }

\* a procedure that refers to T by its name has been parsed after one that
\* declared T as an alias of another table
C16_Witness ==
    /\ Parsed
    /\ previous
    /\ alias_map = << >>
    /\ \E b \in Range(result.branches) :
          /\ \E c \in Range(b.select_columns) : c.table = "T"
          /\ \E t \in Range(b.tables) : t.name = "T" /\ t.alias = ""

\* C17: in every ParseResult, every column reference whose table is a key of
\* the alias map is mapped by it to a table name that is among the tables of
\* the reference's own branch.
C17_AliasKeysResolveInBranch ==
    Parsed =>
        \A k \in 1..Len(result.branches) :
            \A col \in Range(result.branches[k].select_columns)
                       \cup Range(result.branches[k].where_columns) :
                col.table \in DOMAIN result.alias_map =>
                    result.alias_map[col.table] \in NamesOf(result.branches[k].tables)

(***************************************************************************)
(* Properties of SQLParser.to_structured_text.                             *)
(***************************************************************************)
\* the lines that open a section, in the order the sections are to appear
IsHeading(line, n) ==
    CASE n = 1 -> line[1] = ProcedureHead
      [] n = 2 -> line = ParametersLine
      [] n = 3 -> line = TablesLine
      [] n = 4 -> line = SelectLine
      [] n = 5 -> line = WhereLine

HeadingAt(n) == { i \in 1..Len(parser_hint) : IsHeading(parser_hint[i], n) }
AnyHeading == UNION { HeadingAt(n) : n \in 1..5 }

\* the lines of section n: those behind its heading and in front of the next
\* heading
SectionLines(n) ==
    LET heads == HeadingAt(n)
        all   == AnyHeading
    IN  { i \in 1..Len(parser_hint) :
            \E h \in heads :
                /\ h < i
                /\ \A g \in all : ~(h < g /\ g <= i) }

\* the entries of a section: its lines that start with "- "
Entries(n) == { i \in SectionLines(n) : parser_hint[i][1] = "- " }

\* C18: the sections of the hint appear in the fixed order procedure name,
\* parameters, tables, SELECT columns by branch, WHERE-bound columns, each at
\* most once and each exactly when the ParseResult has something for it, and
\* the hint is the text the ParseResult determines: the parameter, table and
\* branch entries are those of the ParseResult in its order.
C18_HintSectionsInOrder ==
    Hinted =>
        /\ parser_hint[1] = TitleLine
        /\ \A n \in 1..5 : Cardinality(HeadingAt(n)) <= 1
        /\ \A m, n \in 1..5 : m < n =>
               \A i \in HeadingAt(m) : \A j \in HeadingAt(n) : i < j
        /\ (HeadingAt(1) # {}) = (result.procedure_name # "")
        /\ (HeadingAt(2) # {}) = (result.parameters # << >>)
        /\ (HeadingAt(3) # {}) = (result.all_tables # << >>)
        /\ (HeadingAt(4) # {}) = (result.branches # << >>)
        /\ (HeadingAt(5) # {}) = (result.all_where_columns # << >>)
        /\ \A i \in HeadingAt(1) : parser_hint[i][2] = result.procedure_name
        /\ Cardinality(Entries(2)) = Len(result.parameters)
        /\ { parser_hint[i][2] : i \in Entries(3) } = NamesOf(result.all_tables)
        /\ { <<parser_hint[i][2], parser_hint[i][4]>> : i \in Entries(4) }
              = { <<ShownTable(c), c.column>> : c \in Range(result.all_select_columns) }
        /\ { <<parser_hint[i][4], parser_hint[i][6]>> : i \in Entries(5) }
              = BoundPairs(result.all_where_columns)
        /\ \A i \in 1..Len(parser_hint) :
               i \notin AnyHeading /\ parser_hint[i][1] = "- " =>
                  i \in UNION { Entries(n) : n \in 2..5 }

\* a hint with all five sections has been written
C18_Witness ==
    /\ Hinted
    /\ \A n \in 1..5 : HeadingAt(n) # {}
    /\ \A n \in 2..5 : Entries(n) # {}

\* re-scanning the hint: the number of entries of its table section, and the
\* distinct table.column entries of its SELECT section
RescannedTables == Cardinality(Entries(3))
RescannedSelectPairs == { <<parser_hint[i][2], parser_hint[i][4]>> : i \in Entries(4) }

\* the tables of a ParseResult, a table being identified by its name without
\* regard to case
TableIdentities(res) == { Upper(res.all_tables[i].name) : i \in 1..Len(res.all_tables) }

BranchHeads == { i \in SectionLines(4) : parser_hint[i][1] = "**[" }

\* C20: every list of the hint is free of duplicates: each table identity
\* (the name without regard to case) is listed exactly once, each
\* (table, column) pair at most once within a branch's SELECT list, and each
\* WHERE binding at most once.
C20_HintListsDeduplicated ==
    Hinted =>
        /\ \A id \in TableIdentities(result) :
               Cardinality({ i \in Entries(3) : Upper(parser_hint[i][2]) = id }) = 1
        /\ \A i, j \in Entries(4) :
               (i < j /\ parser_hint[i] = parser_hint[j]) =>
                  \E h \in BranchHeads : i < h /\ h < j
        /\ \A i, j \in Entries(5) : parser_hint[i] = parser_hint[j] => i = j

(***************************************************************************)
(* Properties of the two extraction strategies and of the parse loop.      *)
(***************************************************************************)
\* every table record there is: in the branches of result, in its list of
\* all tables, and in the branch that has been extracted and not yet added
EmittedTables ==
    UNION { Range(result.branches[k].tables) : k \in 1..Len(result.branches) }
    \cup Range(result.all_tables)
    \cup UNION { Range(extracted[i].branch.tables) : i \in 1..Len(extracted) }

\* the tables of branch k that a statement extracted by `strategy` alone may
\* have given
BranchBy(k, strategy) == k \in Done /\ strategies[k] # << >> /\ Range(strategies[k]) = {strategy}

\* C21: every table record emitted by either strategy has is_temp true if
\* and only if its name begins with the temp-table marker #.
C21_TempFlagIffMarker ==
    \A t \in EmittedTables : t.is_temp <=> t.name \in TempNames

\* the primary strategy has emitted a temporary table in one branch and the
\* fallback one in another, next to tables that are not temporary
C21_Witness ==
    /\ Parsed
    /\ \E k \in Done : BranchBy(k, "primary") /\ \E t \in Range(result.branches[k].tables) : t.is_temp
    /\ \E k \in Done :
          /\ BranchBy(k, "fallback")
          /\ \E t \in Range(result.branches[k].tables) : t.is_temp
          /\ \E t \in Range(result.branches[k].tables) : ~t.is_temp

\* the state of branch k of the parse in progress
Stage(k) ==
    IF ppc \in {"idle", "parse"} THEN "UNSPLIT"
    ELSE IF ppc = "extracted" /\ k = branch_i THEN "EXTRACTED"
    ELSE IF k <= Len(result.branches) THEN "AGGREGATED"
    ELSE "SPLIT"

\* the states in their order
StageRank(stage) ==
    CASE stage = "UNSPLIT" -> 0
      [] stage = "SPLIT" -> 1
      [] stage = "EXTRACTED" -> 2
      [] stage = "AGGREGATED" -> 3

\* a step of the parse of one procedure: every branch stays where it is or
\* moves to the next state, an aggregated branch is left as it is, and a
\* step of the loop moves exactly one branch on, unless all are aggregated
\* and parse returns
LifecycleStep ==
    ppc' # "idle" =>
        /\ \A k \in 1..Len(split') :
              /\ StageRank(Stage(k)') \in {StageRank(Stage(k)), StageRank(Stage(k)) + 1}
              /\ Stage(k) = "AGGREGATED" =>
                    /\ k <= Len(result'.branches)
                    /\ result'.branches[k] = result.branches[k]
        /\ ppc \in {"branches", "extracted"} =>
              \/ Cardinality({ k \in 1..Len(split) : Stage(k)' # Stage(k) }) = 1
              \/ /\ ppc' = "parsed"
                 /\ \A k \in 1..Len(split) : Stage(k) = "AGGREGATED"

\* C22: each branch moves through UNSPLIT, SPLIT, EXTRACTED (every statement
\* by the primary or by the fallback strategy) and AGGREGATED in that order
\* only, one branch one state further with every step of the loop; when
\* parse returns, every branch of the splitter is in result exactly once and
\* in its place; an aggregated branch is never extracted or aggregated again.
C22_BranchLifecycle ==
    /\ [][LifecycleStep]_vars
    /\ [](ppc = "extracted" =>
            /\ branch_i \in 1..Len(split)
            /\ Len(result.branches) = branch_i - 1
            /\ extracted[1].branch.condition = split[branch_i].condition
            /\ extracted[1].strategies # << >>
            /\ Range(extracted[1].strategies) \subseteq {"primary", "fallback"})
    /\ [](Parsed =>
            /\ Len(result.branches) = Len(split)
            /\ \A k \in 1..Len(split) : result.branches[k].condition = split[k].condition)

\* two branches, one extracted by the primary and one by the fallback
\* strategy, have been aggregated
C22_Witness ==
    /\ Parsed
    /\ Len(split) = 2
    /\ BranchBy(1, "primary")
    /\ BranchBy(2, "fallback")
    /\ \A k \in 1..2 : Stage(k) = "AGGREGATED"

\* the places of all_tables where alias a is declared
DeclarationsOf(a) == { i \in 1..Len(result.all_tables) : result.all_tables[i].alias = a }
LastOf(set) == CHOOSE i \in set : \A j \in set : j <= i

\* C23: the alias registry is one map for all branches and statements of a
\* parse: the final alias_map holds every alias declared anywhere, mapped to
\* the table of its last declaration, and a column extracted through an
\* alias that is declared again later for another table keeps the table the
\* alias had in its own statement.
C23_LastDeclarationWins ==
    Parsed =>
        /\ DOMAIN result.alias_map =
              { result.all_tables[i].alias : i \in 1..Len(result.all_tables) } \ {""}
        /\ \A a \in DOMAIN result.alias_map :
              result.alias_map[a] = result.all_tables[LastOf(DeclarationsOf(a))].name
        /\ \A k \in Done : \A ast \in TreesOf(k) :
              \A i \in 1..Len(ast.select) : \A c \in Leaves(ast.select[i]) :
                 (/\ c.table \in DeclaredAliases(ast)
                  /\ result.alias_map[c.table] # TableOfAlias(ast, c.table)) =>
                    TableOfAlias(ast, c.table)
                       \in { col.table : col \in { x \in Range(result.branches[k].select_columns) :
                                                      x.column = c.name } }

\* A has been declared for T and later for t: the map ends with t and the
\* columns of the first statement are columns of T
C23_Witness ==
    /\ Parsed
    /\ "A" \in DOMAIN result.alias_map
    /\ result.alias_map["A"] = "t"
    /\ \E i \in DeclarationsOf("A") : result.all_tables[i].name = "T"
    /\ \E col \in Range(result.all_select_columns) : col.table = "T" /\ col.column = "d"

\* the sections of the procedure whose text is in the body of some branch:
\* all of them when no section is guarded, else those from the first guard on
CoveredSections ==
    { k \in 1..Len(procedure.sections) :
        \/ \A j \in 1..Len(procedure.sections) : ~procedure.sections[j].guarded
        \/ \E j \in 1..k : procedure.sections[j].guarded }

\* a SELECT-list item that is a computed expression
IsComputed(expr) == expr.kind \in {"func", "sum", "case", "longsum"}

\* C24: for a SELECT-list item that is a computed expression (function call,
\* CASE, arithmetic), one select column is emitted for each column inside
\* the expression: no column that occurs inside a computed expression is
\* missing from the select columns.
C24_ComputedExpressionsDecomposed ==
    Parsed =>
        \A k \in CoveredSections :
            LET st == procedure.sections[k].stmt
            IN  \A i \in 1..Len(st.select) :
                    IsComputed(st.select[i]) =>
                        \A c \in Leaves(st.select[i]) :
                            \E col \in Range(result.all_select_columns) :
                                col.column = c.name /\ col.is_select

\* the tables a statement of a covered section reads through a schema prefix
QualifiedTables ==
    UNION { { t \in Range(procedure.sections[k].stmt.from) : t.db # "" } : k \in CoveredSections }

\* C25: both strategies strip the schema prefix: for FROM dbo.T A the table
\* emitted is T with alias A and the registry holds A, in the primary and in
\* the fallback strategy alike; the prefix is never emitted as a table.
C25_SchemaPrefixStripped ==
    Parsed =>
        \A t \in QualifiedTables :
            /\ \E r \in Range(result.all_tables) : r.name = t.name /\ r.alias = t.alias
            /\ t.alias \in DOMAIN result.alias_map
            /\ \A r \in Range(result.all_tables) : r.name # t.db

\* the alias registry, while parse runs and in the ParseResult it returns
RegistryKeys == DOMAIN alias_map \cup (IF Parsed THEN DOMAIN result.alias_map ELSE {})

\* C26: in both strategies an alias is recorded only when it is not one of
\* the ten blacklisted keywords: no table record has such an alias and the
\* alias registry has no such key, whatever the letter case.
C26_NoKeywordAlias ==
    /\ \A t \in EmittedTables : Upper(t.alias) \notin AliasBlacklist
    /\ \A a \in RegistryKeys : Upper(a) \notin AliasBlacklist

\* a table the grammar tree gives the alias ON and a table the fallback
\* pattern finds in front of the word WHERE were both emitted without alias
C26_Witness ==
    /\ Parsed
    /\ \E j \in Done, k \in Done :
        /\ BranchBy(j, "primary")
        /\ \E st \in Range(StatementsOf(j)) :
               /\ parse_one(st) # << >>
               /\ \E i \in 1..Len(parse_one(st)[1].from) : parse_one(st)[1].from[i].alias = "ON"
        /\ \E t \in Range(result.branches[j].tables) : t.name = "#T" /\ t.alias = ""
        /\ BranchBy(k, "fallback")
        /\ \E st \in Range(StatementsOf(k)) :
               \E i \in 1..(Len(st) - 2) : st[i] = "FROM" /\ st[i + 1] = "#T" /\ st[i + 2] = "WHERE"
        /\ \E t \in Range(result.branches[k].tables) : t.name = "#T" /\ t.alias = ""

\* the strategies that can extract a statement on their own
StrategiesFor(st) == IF parse_one(st) = << >> THEN {"fallback"} ELSE {"primary", "fallback"}

\* the tables of the statements from the k-th on, each statement extracted
\* by the one strategy that `choice` names for it
RECURSIVE TablesFrom(_, _, _, _)
TablesFrom(stmts, choice, condition, k) ==
    IF k > Len(stmts) THEN << >>
    ELSE (IF choice[k] = "primary"
          THEN _extract_tables_from_ast(parse_one(stmts[k])[1], condition, << >>, 1).tables
          ELSE _extract_tables_regex(stmts[k], condition, << >>).tables)
         \o TablesFrom(stmts, choice, condition, k + 1)

\* C27: what a branch holds for each of its SELECT statements comes from
\* exactly one strategy: when the primary strategy raises at any step,
\* nothing it produced for the statement stays in the branch, so the tables
\* of the branch are those of one strategy per statement and none is
\* recorded twice.
C27_OneStrategyPerStatement ==
    Parsed =>
        \A k \in Done :
            \E choice \in [1..Len(StatementsOf(k)) -> {"primary", "fallback"}] :
                /\ \A i \in 1..Len(StatementsOf(k)) : choice[i] \in StrategiesFor(StatementsOf(k)[i])
                /\ result.branches[k].tables
                     = TablesFrom(StatementsOf(k), choice, split[k].condition, 1)

\* the sections in front of the first guard of a procedure that has one
SectionsBeforeFirstGuard == (1..Len(procedure.sections)) \ CoveredSections

\* what the extraction makes of the statement of section k taken alone
AloneOf(k) == _parse_branch("", Render(procedure.sections[k].stmt), << >>).branch

\* C28: when a guard is found, the text in front of the first guard is not
\* lost: the tables and the select columns of a SELECT statement that
\* precedes the first guard appear in the ParseResult.
C28_TextBeforeFirstGuardKept ==
    Parsed =>
        \A k \in SectionsBeforeFirstGuard :
            /\ NamesOf(AloneOf(k).tables) \subseteq NamesOf(result.all_tables)
            /\ { c.column : c \in Range(AloneOf(k).select_columns) }
                 \subseteq { c.column : c \in Range(result.all_select_columns) }

\* the per-branch lists of a field, one after the other in branch order
BranchLists(field) ==
    Concat([k \in 1..Len(result.branches) |-> result.branches[k][field]], << >>)

\* C29: a ParseResult has one branch for every branch of the splitter, with
\* its condition, also when nothing was extracted for it; all_tables,
\* all_select_columns and all_where_columns are the concatenations of the
\* per-branch lists in branch order; and the branch field of every table
\* and column record is the condition of the branch that holds it.
C29_ResultMirrorsBranches ==
    Parsed =>
        /\ Len(result.branches) = Len(split)
        /\ \A k \in 1..Len(split) : result.branches[k].condition = split[k].condition
        /\ result.all_tables = BranchLists("tables")
        /\ result.all_select_columns = BranchLists("select_columns")
        /\ result.all_where_columns = BranchLists("where_columns")
        /\ \A k \in 1..Len(result.branches) :
               \A r \in Range(result.branches[k].tables)
                        \cup Range(result.branches[k].select_columns)
                        \cup Range(result.branches[k].where_columns) :
                   r.branch = result.branches[k].condition

\* a result of two branches with different conditions: nothing was
\* extracted for one, tables, select and where columns for the other
C29_Witness ==
    /\ Parsed
    /\ \E j, k \in 1..Len(result.branches) :
        /\ result.branches[j].condition # result.branches[k].condition
        /\ result.branches[j].tables = << >>
        /\ result.branches[j].select_columns = << >>
        /\ result.branches[j].where_columns = << >>
        /\ result.branches[k].tables # << >>
        /\ result.branches[k].select_columns # << >>
        /\ result.branches[k].where_columns # << >>

(***************************************************************************)
(* GeminiAnalyzer.analyze and its retry on a 429 answer                    *)
(* (gemini_analyzer.py:143-162, 164-225).                                  *)
(***************************************************************************)
MaxKeys == 3          \* configured API keys
RecursionLimit == 4   \* calls of analyze the interpreter's stack has room for

\* gemini_analyzer.py:146: the configured keys, by number
KeyLists == { [i \in 1..n |-> i] : n \in 1..MaxKeys }

\* the key requests are sent with: the one last handed to genai.configure
\* (gemini_analyzer.py:152, 158-159)
CurrentKey == api_keys[current_key_index + 1]

\* gemini_analyzer.py:155-162: the index after _switch_api_key, and what it
\* returns
SwitchedIndex == IF Len(api_keys) > 1 THEN (current_key_index + 1) % Len(api_keys) ELSE current_key_index
Switched == Len(api_keys) > 1

\* gemini_analyzer.py:143-153: an analyzer is constructed
InitAnalyze ==
    /\ api_keys \in KeyLists
    /\ current_key_index = 0
    /\ frames = 0
    /\ key_uses = [k \in 1..Len(api_keys) |-> 0]
    /\ exhausted = {}
    /\ raised_error = ""
    /\ apc = "idle"
    /\ MappingIdle
    /\ SplitIdle
    /\ ParseIdle

\* the caller calls analyze for a procedure (main.py); the quota of each key
\* is the service's and lasts for the call
AnalyzeCall ==
    /\ apc \in {"idle", "returned", "raised"}
    /\ exhausted' \in SUBSET Range(api_keys)
    /\ frames' = 1
    /\ key_uses' = [k \in 1..Len(api_keys) |-> 0]
    /\ raised_error' = ""
    /\ apc' = "phase0"
    /\ UNCHANGED <<api_keys, current_key_index>>
    /\ UNCHANGED <<mvars, svars, pvars>>

\* gemini_analyzer.py:173-175: the parser phase, which raises nothing
Phase0 ==
    /\ apc = "phase0"
    /\ apc' = "phase1"
    /\ UNCHANGED <<api_keys, current_key_index, frames, key_uses, exhausted, raised_error>>
    /\ UNCHANGED <<mvars, svars, pvars>>

\* the answer to a request of generate_content sent with the current key:
\* 429 when the key's quota is used up, otherwise a response or another error
Request(to) ==
    /\ key_uses' = [key_uses EXCEPT ![CurrentKey] = @ + 1]
    /\ IF CurrentKey \in exhausted
       THEN raised_error' = "429" /\ apc' = "except"
       ELSE \/ raised_error' = "" /\ apc' = to
            \/ raised_error' = "other" /\ apc' = "except"

\* gemini_analyzer.py:183-189
Phase1 ==
    /\ apc = "phase1"
    /\ Request("phase2")
    /\ UNCHANGED <<api_keys, current_key_index, frames, exhausted>>
    /\ UNCHANGED <<mvars, svars, pvars>>

\* gemini_analyzer.py:201-207
Phase2 ==
    /\ apc = "phase2"
    /\ Request("parse")
    /\ UNCHANGED <<api_keys, current_key_index, frames, exhausted>>
    /\ UNCHANGED <<mvars, svars, pvars>>

\* gemini_analyzer.py:216-219: _parse_response and return, through every
\* call of analyze on the stack
ParseResponse ==
    /\ apc = "parse"
    /\ frames' = 0
    /\ apc' = "returned"
    /\ UNCHANGED <<api_keys, current_key_index, key_uses, exhausted, raised_error>>
    /\ UNCHANGED <<mvars, svars, pvars>>

\* gemini_analyzer.py:221-225: on a 429 with another key to switch to,
\* analyze calls itself; a call the stack has no room for ends with a
\* RecursionError, which goes up to the caller; any other exception, and a
\* 429 with one key, is raised again
Except ==
    /\ apc = "except"
    /\ IF raised_error = "429" /\ Switched
       THEN /\ current_key_index' = SwitchedIndex
            /\ IF frames < RecursionLimit
               THEN frames' = frames + 1 /\ raised_error' = "" /\ apc' = "phase0"
               ELSE frames' = 0 /\ raised_error' = "RecursionError" /\ apc' = "raised"
       ELSE /\ frames' = 0
            /\ apc' = "raised"
            /\ UNCHANGED <<current_key_index, raised_error>>
    /\ UNCHANGED <<api_keys, key_uses, exhausted>>
    /\ UNCHANGED <<mvars, svars, pvars>>

NextAnalyze ==
    \/ AnalyzeCall
    \/ Phase0
    \/ Phase1
    \/ Phase2
    \/ ParseResponse
    \/ Except

SpecAnalyze == InitAnalyze /\ [][NextAnalyze]_vars

\* every configured key is out of quota for the whole call
AllKeysExhausted == apc # "idle" /\ exhausted = Range(api_keys)

\* C30: analyze ends by its own means: while the service keeps answering
\* 429, the retry tries the keys a bounded number of times, never until the
\* stack of calls is used up, and what the caller then gets is the 429
\* error; with a single key a 429 is raised without another call.
C30_RetryBoundedErrorSurfaced ==
    /\ raised_error # "RecursionError"
    /\ (apc = "raised" /\ AllKeysExhausted) => raised_error = "429"
    /\ Len(api_keys) = 1 => frames <= 1

====
